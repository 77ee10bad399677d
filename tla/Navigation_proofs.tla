--------------------------- MODULE Navigation_proofs ---------------------------
(***************************************************************************)
(* Proofs about Navigation, for stacks of every depth and any number of    *)
(* unanswered calls.                                                       *)
(***************************************************************************)
EXTENDS Navigation, TLAPS

-----------------------------------------------------------------------------
(* What a push, a pop and a change of tab do to one stack s of a tab t,    *)
(* with its navigation bar and its calls of getShop.                       *)

StackOK(t, s, nav, calls) ==
    /\ s \in Seq(Screens) /\ Len(s) > 0 /\ s[1] = t
    /\ nav \in BOOLEAN /\ calls \in Nat
    /\ StackShape(s)
    /\ Len(s) > 1 /\ s[Len(s)] = "home" => nav
    /\ StackHides(s) => ~nav
    /\ calls > 0 => \E i \in DOMAIN s : s[i] = "search"

\* A screen that sets the tab bar decides for the stack it is on top of.
LEMMA TopDecides ==
    ASSUME NEW s \in Seq(Screens), Len(s) > 0, s[Len(s)] \in Deciding
    PROVE  StackHides(s) <=> s[Len(s)] \in {"category", "search"}
<1>1. /\ Len(s) \in Nat /\ DOMAIN s = 1 .. Len(s)
      /\ Len(s) \in DOMAIN s
    OBVIOUS
<1>2. CASE s[Len(s)] \in {"category", "search"}
    <2>1. \A j \in DOMAIN s : j > Len(s) => s[j] \notin Deciding
        BY <1>1
    <2> QED BY <1>1, <1>2, <2>1 DEF StackHides
<1>3. CASE s[Len(s)] \notin {"category", "search"}
    <2> SUFFICES ASSUME NEW i \in DOMAIN s, s[i] \in {"category", "search"},
                        \A j \in DOMAIN s : j > i => s[j] \notin Deciding
                 PROVE  FALSE
        BY <1>3 DEF StackHides
    <2>1. i # Len(s) /\ i < Len(s)
        BY <1>1, <1>3
    <2> QED BY <1>1, <2>1
<1> QED BY <1>2, <1>3

\* A stack of more than its root has a top above it.
LEMMA AboveRoot ==
    ASSUME NEW s \in Seq(Screens), Len(s) > 0, Len(s) # 1
    PROVE  Len(s) > 1 /\ Len(s) \in 2 .. Len(s)
<1>1. Len(s) \in Nat
    OBVIOUS
<1>2. \A n \in Nat : n > 0 /\ n # 1 => n > 1 /\ n \in 2 .. n
    OBVIOUS
<1> QED BY <1>1, <1>2

\* No tab hides the tab bar on its root.
LEMMA RootShows ==
    ASSUME NEW s, Len(s) = 1, DOMAIN s = 1 .. 1, s[1] \in Tabs
    PROVE  ~StackHides(s)
<1>1. \A i \in DOMAIN s : s[i] \notin {"category", "search"}
    BY DEF Tabs
<1> QED BY <1>1 DEF StackHides

\* A screen that sets no tab bar leaves the decision to those below.
LEMMA AppendHides ==
    ASSUME NEW s \in Seq(Screens), NEW x \in Screens
    PROVE  StackHides(Append(s, x)) <=>
               x \in {"category", "search"} \/ (x \notin Deciding /\ StackHides(s))
<1> DEFINE a == Append(s, x)
<1>1. /\ a \in Seq(Screens) /\ Len(s) \in Nat /\ Len(a) = Len(s) + 1
      /\ DOMAIN s = 1 .. Len(s) /\ DOMAIN a = 1 .. Len(s) + 1
      /\ a[Len(a)] = x /\ \A i \in 1 .. Len(s) : a[i] = s[i]
    OBVIOUS
<1>2. CASE x \in Deciding
    <2> HIDE DEF a
    <2>1. StackHides(a) <=> x \in {"category", "search"}
        BY <1>1, <1>2, TopDecides
    <2> QED BY <1>2, <2>1 DEF a
<1>3. CASE x \notin Deciding
    <2>1. x \notin {"category", "search"}
        BY <1>3 DEF Deciding
    <2>2. ASSUME StackHides(s) PROVE StackHides(a)
        <3>1. PICK i \in DOMAIN s :
                  /\ s[i] \in {"category", "search"}
                  /\ \A j \in DOMAIN s : j > i => s[j] \notin Deciding
            BY <2>2 DEF StackHides
        <3>2. i \in DOMAIN a /\ a[i] \in {"category", "search"}
            BY <1>1, <3>1
        <3>3. \A j \in DOMAIN a : j > i => a[j] \notin Deciding
            BY <1>1, <1>3, <3>1
        <3> HIDE DEF a
        <3> QED BY <3>2, <3>3 DEF StackHides
    <2>3. ASSUME StackHides(a) PROVE StackHides(s)
        <3> HIDE DEF a
        <3>1. PICK i \in DOMAIN a :
                  /\ a[i] \in {"category", "search"}
                  /\ \A j \in DOMAIN a : j > i => a[j] \notin Deciding
            BY <2>3 DEF StackHides
        <3>2. i \in DOMAIN s
            BY <1>1, <2>1, <3>1
        <3> QED BY <1>1, <3>1, <3>2 DEF StackHides
    <2> QED BY <1>3, <2>1, <2>2, <2>3
<1> QED BY <1>2, <1>3

\* The same of the screen a pop takes off.
LEMMA FrontHides ==
    ASSUME NEW s \in Seq(Screens), Len(s) > 1, s[Len(s)] \notin Deciding
    PROVE  StackHides(SubSeq(s, 1, Len(s) - 1)) <=> StackHides(s)
<1> DEFINE f == SubSeq(s, 1, Len(s) - 1)
<1>1. /\ f \in Seq(Screens) /\ Len(s) \in Nat /\ Len(f) = Len(s) - 1
      /\ DOMAIN s = 1 .. Len(s) /\ DOMAIN f = 1 .. Len(s) - 1
      /\ \A i \in 1 .. Len(s) - 1 : f[i] = s[i]
      /\ s[Len(s)] \in Screens
    OBVIOUS
<1>2. s = Append(f, s[Len(s)])
    BY <1>1
<1>3. s[Len(s)] \notin {"category", "search"}
    BY DEF Deciding
<1> HIDE DEF f
<1>4. StackHides(Append(f, s[Len(s)])) <=> StackHides(f)
    BY <1>1, <1>3, AppendHides
<1> QED BY <1>2, <1>4 DEF f

\* What a screen on top of a stack and the bars it leaves keep of StackOK.
Pushable(top, x) ==
    \/ x \in Pushes[top]
    \/ x = "shopInfo"
    \/ x = "signUp" /\ top = "account"
    \/ x = "home" /\ top = "signUp"

\* Every push keeps a stack well-formed and, on the selected tab, leaves the
\* tab bar as the new stack wants it.
LEMMA PushKeeps ==
    ASSUME NEW t \in Tabs, NEW s, NEW nav, NEW calls, StackOK(t, s, nav, calls),
           NEW x \in Screens, Pushable(s[Len(s)], x),
           NEW b \in [tab : BOOLEAN, nav : BOOLEAN], b.nav => nav,
           x # "shopInfo" => (b.tab <=> StackHides(s))
    PROVE  LET c == Appears(x, Disappears(s[Len(s)], b))
           IN  /\ c \in [tab : BOOLEAN, nav : BOOLEAN]
               /\ StackOK(t, Append(s, x), c.nav, calls)
               /\ (b.tab <=> StackHides(s)) => (c.tab <=> StackHides(Append(s, x)))
               /\ x = "shopInfo" => /\ c.tab = b.tab
                                    /\ (StackHides(Append(s, x)) <=> StackHides(s))
<1> DEFINE top == s[Len(s)]
           d == Disappears(top, b)
           c == Appears(x, d)
           a == Append(s, x)
<1>1. /\ s \in Seq(Screens) /\ Len(s) \in Nat /\ Len(s) > 0 /\ top \in Screens
      /\ a \in Seq(Screens) /\ Len(a) = Len(s) + 1 /\ a[1] = t
      /\ DOMAIN s = 1 .. Len(s) /\ DOMAIN a = 1 .. Len(s) + 1
      /\ a[Len(a)] = x /\ \A i \in 1 .. Len(s) : a[i] = s[i]
    BY DEF StackOK
<1>2. StackHides(a) <=> x \in {"category", "search"} \/ (x \notin Deciding /\ StackHides(s))
    BY <1>1, AppendHides
<1>3. /\ d \in [tab : BOOLEAN, nav : BOOLEAN] /\ d.tab = b.tab
      /\ top # "signUp" => d.nav = b.nav
    BY DEF Disappears
<1>4. /\ c \in [tab : BOOLEAN, nav : BOOLEAN]
      /\ x = "home" => c.tab = FALSE /\ c.nav = TRUE
      /\ x \in {"category", "search"} => c.tab = TRUE /\ c.nav = FALSE
      /\ x \in {"shopInfo", "product", "event", "signUp"} => c = d
    <2> HIDE DEF d
    <2> QED BY <1>3 DEF Appears, HomeAppears, ShopAppears, SearchAppears, AccountAppears
<1>5. /\ x \in {"home", "category", "search", "shopInfo", "product", "event", "signUp"}
      /\ x \in {"category", "search"} => top \in Deciding
      /\ x = "home" => top = "signUp"
      /\ x = "signUp" => top = "account"
    BY <1>1 DEF Pushable, Pushes, Deciding, Screens
<1>6. top = "account" => Len(s) = 1 /\ t = "account"
    BY <1>1 DEF StackOK, StackShape
<1>7. StackShape(a)
    <2> SUFFICES ASSUME NEW i \in 2 .. Len(a)
                 PROVE  /\ a[i] \notin {"shop", "wallet", "account"}
                        /\ a[i] \in {"category", "search"} => a[i - 1] \in Deciding
                        /\ a[i] = "signUp" => i = 2 /\ a[1] = "account"
                        /\ a[i] = "home" => a[i - 1] = "signUp"
        BY DEF StackShape
    <2> HIDE DEF a, c, d
    <2>1. CASE i = Len(a)
        <3>1. a[i] = x /\ a[i - 1] = top
            BY <1>1, <2>1
        <3> QED BY <1>1, <1>5, <1>6, <2>1, <3>1
    <2>2. CASE i # Len(a)
        <3>1. i \in 2 .. Len(s) /\ a[i] = s[i] /\ a[i - 1] = s[i - 1] /\ a[1] = s[1]
            BY <1>1, <2>2
        <3> QED BY <3>1 DEF StackOK, StackShape
    <2> QED BY <2>1, <2>2
<1>8. StackHides(s) => top # "signUp"
    <2> SUFFICES ASSUME top = "signUp", StackHides(s) PROVE FALSE
        OBVIOUS
    <2>1. /\ Len(s) = 1 => s[1] \in Tabs
          /\ Len(s) > 1 => Len(s) = 2 /\ s[1] = "account"
        BY <1>1 DEF StackOK, StackShape
    <2> QED BY <1>1, <2>1 DEF StackHides, Tabs
<1>9. StackHides(a) => ~c.nav
    <2> HIDE DEF a, c, d, top
    <2>1. CASE x \in {"category", "search"}
        BY <1>4, <2>1
    <2>2. CASE x \notin {"category", "search"}
        <3> SUFFICES ASSUME StackHides(a) PROVE ~c.nav
            OBVIOUS
        <3>1. x \notin Deciding /\ StackHides(s)
            BY <1>2, <2>2
        <3>2. c = d /\ d.nav = b.nav
            BY <1>3, <1>4, <1>5, <1>8, <2>2, <3>1 DEF Deciding
        <3>3. ~nav
            BY <3>1 DEF StackOK
        <3> QED BY <3>2, <3>3
    <2> QED BY <2>1, <2>2
<1>10. calls \in Nat /\ (calls > 0 => \E i \in DOMAIN a : a[i] = "search")
    BY <1>1 DEF StackOK
<1>11. StackOK(t, a, c.nav, calls)
    <2> HIDE DEF a, c, d, top
    <2> QED BY <1>1, <1>4, <1>7, <1>9, <1>10 DEF StackOK
<1>12. (b.tab <=> StackHides(s)) => (c.tab <=> StackHides(a))
    <2> HIDE DEF a, c, d, top
    <2> QED BY <1>2, <1>3, <1>4, <1>5 DEF Deciding
<1>13. x = "shopInfo" => c.tab = b.tab /\ (StackHides(a) <=> StackHides(s))
    <2> HIDE DEF a, c, d, top
    <2> QED BY <1>2, <1>3, <1>4 DEF Deciding
<1> HIDE DEF a, c
<1>14. /\ c \in [tab : BOOLEAN, nav : BOOLEAN] /\ StackOK(t, a, c.nav, calls)
       /\ (b.tab <=> StackHides(s)) => (c.tab <=> StackHides(a))
       /\ x = "shopInfo" => c.tab = b.tab /\ (StackHides(a) <=> StackHides(s))
    BY <1>4, <1>11, <1>12, <1>13
<1> QED BY <1>14 DEF a, c

\* A pop uncovers a screen that sets the bars, or that inherits the right ones.
LEMMA PopKeeps ==
    ASSUME NEW t \in Tabs, NEW s, NEW nav, NEW calls, StackOK(t, s, nav, calls),
           Len(s) > 1, ~nav,
           NEW b \in [tab : BOOLEAN, nav : BOOLEAN], ~b.nav,
           b.tab <=> StackHides(s)
    PROVE  LET f == SubSeq(s, 1, Len(s) - 1)
               c == Appears(f[Len(f)], Disappears(s[Len(s)], b))
           IN  /\ c \in [tab : BOOLEAN, nav : BOOLEAN]
               /\ StackOK(t, f, c.nav, IF s[Len(s)] = "search" THEN 0 ELSE calls)
               /\ c.tab <=> StackHides(f)
<1> DEFINE top == s[Len(s)]
           f == SubSeq(s, 1, Len(s) - 1)
           new == f[Len(f)]
           d == Disappears(top, b)
           c == Appears(new, d)
           left == IF top = "search" THEN 0 ELSE calls
<1>1. /\ s \in Seq(Screens) /\ Len(s) \in Nat /\ s[1] = t
      /\ top \in Screens /\ new \in Screens /\ new = s[Len(s) - 1]
      /\ f \in Seq(Screens) /\ Len(f) = Len(s) - 1 /\ Len(f) > 0 /\ f[1] = t
      /\ DOMAIN s = 1 .. Len(s) /\ DOMAIN f = 1 .. Len(s) - 1
      /\ \A i \in 1 .. Len(s) - 1 : f[i] = s[i]
    BY DEF StackOK
<1>2. /\ top \in {"category", "search"} => new \in Deciding
      /\ top \notin {"home", "shop", "wallet", "account"}
      /\ top = "signUp" => Len(s) = 2 /\ s[1] = "account"
    BY <1>1 DEF StackOK, StackShape
<1>3. /\ d \in [tab : BOOLEAN, nav : BOOLEAN] /\ d.tab = b.tab
      /\ top # "signUp" => ~d.nav
    BY DEF Disappears
<1>4. /\ c \in [tab : BOOLEAN, nav : BOOLEAN]
      /\ new = "home" => c.tab = FALSE /\ c.nav = TRUE
      /\ new = "shop" => c.tab = FALSE /\ c.nav = FALSE
      /\ new \in {"category", "search"} => c.tab = TRUE /\ c.nav = FALSE
      /\ new = "account" => c.tab = d.tab
      /\ new \in {"wallet", "shopInfo", "product", "event", "signUp"} => c = d
    <2> HIDE DEF d, f, new
    <2> QED BY <1>3 DEF Appears, HomeAppears, ShopAppears, SearchAppears, AccountAppears
<1>5. new \in Deciding => (StackHides(f) <=> new \in {"category", "search"})
    <2> HIDE DEF f
    <2> QED BY <1>1, TopDecides DEF new
<1>6. new \notin Deciding => (StackHides(f) <=> StackHides(s))
    <2>1. new \notin Deciding => top \notin Deciding
        BY <1>2 DEF Deciding
    <2> QED BY <1>1, <2>1, FrontHides
<1>7. c.tab <=> StackHides(f)
    <2> HIDE DEF c, d, f, new, top
    <2> QED BY <1>1, <1>3, <1>4, <1>5, <1>6 DEF Deciding, Screens
<1>8. StackHides(f) => ~c.nav
    <2> HIDE DEF c, d, f, new, top
    <2>1. CASE new \in Deciding
        BY <1>4, <1>5, <2>1 DEF Deciding
    <2>2. CASE new \notin Deciding /\ top # "signUp"
        <3>1. CASE new = "account"
            <4>1. Len(f) = 1
                BY <1>1, <3>1 DEF StackOK, StackShape, new
            <4>2. f[1] = "account"
                BY <3>1, <4>1 DEF new
            <4> QED BY <1>1, <4>1, <4>2, RootShows DEF Tabs
        <3>2. CASE new # "account"
            BY <1>1, <1>3, <1>4, <2>2, <3>2 DEF Deciding, Screens
        <3> QED BY <3>1, <3>2
    <2>3. CASE top = "signUp"
        <3>1. Len(f) = 1 /\ f[1] = "account"
            BY <1>1, <1>2, <2>3
        <3> QED BY <1>1, <3>1, RootShows DEF Tabs
    <2> QED BY <2>1, <2>2, <2>3
<1>9. StackShape(f)
    <2> HIDE DEF f
    <2>1. \A i \in 2 .. Len(f) : i \in 2 .. Len(s) /\ f[i] = s[i] /\ f[i - 1] = s[i - 1]
        BY <1>1
    <2> QED BY <1>1, <2>1 DEF StackOK, StackShape
<1>10. left \in Nat /\ (left > 0 => \E i \in DOMAIN f : f[i] = "search")
    <2>1. CASE top = "search"
        BY <2>1
    <2>2. CASE top # "search"
        <3>1. left = calls /\ calls \in Nat
            BY <2>2 DEF StackOK
        <3>2. ASSUME calls > 0 PROVE \E i \in DOMAIN f : f[i] = "search"
            <4>1. PICK i \in DOMAIN s : s[i] = "search"
                BY <3>2 DEF StackOK
            <4>2. i \in DOMAIN f /\ f[i] = "search"
                BY <1>1, <2>2, <4>1
            <4> QED BY <4>2
        <3> QED BY <3>1, <3>2
    <2> QED BY <2>1, <2>2
<1>11. new = "home" => c.nav
    BY <1>4
<1> HIDE DEF c, f, left, d
<1>12. StackOK(t, f, c.nav, left)
    BY <1>1, <1>4, <1>8, <1>9, <1>10, <1>11 DEF StackOK, new
<1> QED BY <1>4, <1>7, <1>12 DEF c, f, left, d

\* The bars a tab keeps when another is selected.
LEMMA LeaveKeeps ==
    ASSUME NEW t \in Tabs, NEW s, NEW nav, NEW calls, StackOK(t, s, nav, calls),
           ~StackHides(s), NEW b \in [tab : BOOLEAN, nav : BOOLEAN], b.nav <=> nav
    PROVE  StackOK(t, s, Disappears(s[Len(s)], b).nav, calls)
<1>1. /\ Disappears(s[Len(s)], b).nav \in BOOLEAN
      /\ nav => Disappears(s[Len(s)], b).nav
    BY DEF Disappears
<1> QED BY <1>1 DEF StackOK

\* The bars a tab sets when it is selected, which leaves the tab bar visible.
LEMMA ArriveKeeps ==
    ASSUME NEW t \in Tabs, NEW s, NEW nav, NEW calls, StackOK(t, s, nav, calls),
           ~StackHides(s)
    PROVE  LET c == Appears(s[Len(s)], [tab |-> FALSE, nav |-> nav])
           IN  c.nav \in BOOLEAN /\ c.tab = FALSE /\ StackOK(t, s, c.nav, calls)
<1> DEFINE top == s[Len(s)]
           c == Appears(top, [tab |-> FALSE, nav |-> nav])
<1>1. s \in Seq(Screens) /\ Len(s) > 0 /\ top \in Screens /\ nav \in BOOLEAN
    BY DEF StackOK
<1>2. top \notin {"category", "search"}
    BY <1>1, TopDecides DEF Deciding
<1>3. c.nav \in BOOLEAN /\ c.tab = FALSE /\ (top = "home" => c.nav)
    BY <1>1, <1>2 DEF Appears, HomeAppears, ShopAppears, AccountAppears, SearchAppears
<1> HIDE DEF c
<1>4. StackOK(t, s, c.nav, calls)
    BY <1>3 DEF StackOK
<1> QED BY <1>3, <1>4 DEF c

-----------------------------------------------------------------------------
(* The inductive invariant, tab by tab.                                    *)

Kinds == {"signIn", "createUser", "google"}

TabsOK ==
    /\ selected \in Tabs
    /\ stacks \in [Tabs -> Seq(Screens)]
    /\ tabBarHidden \in BOOLEAN
    /\ navBarHidden \in [Tabs -> BOOLEAN]
    /\ getShops \in [Tabs -> Nat]
    /\ tabBarHidden <=> StackHides(stacks[selected])
    /\ \A t \in Tabs : /\ StackOK(t, stacks[t], navBarHidden[t], getShops[t])
                       /\ t # selected => ~StackHides(stacks[t])

UserOK ==
    /\ form \in BOOLEAN /\ signedIn \in BOOLEAN /\ crashed \in BOOLEAN
    /\ auths \in [Kinds -> Nat]
    /\ SignedOutMeansNoForm

\* NavInv says the same, property by property.
LEMMA InvByTab == NavInv <=> TabsOK /\ UserOK
<1>1. NavInv => TabsOK
    BY DEF NavInv, NavTypeOK, TabBarFollowsScreen, TabsOK, StackOK, NoBackFromHome,
           HidingHasBack, GetShopHasSearch, Top
<1>2. NavInv => UserOK
    BY DEF NavInv, NavTypeOK, UserOK, Kinds
<1>3. TabsOK /\ UserOK => NavTypeOK
    BY DEF NavTypeOK, TabsOK, UserOK, StackOK, Kinds
<1>4. TabsOK => \A t \in Tabs : /\ StackShape(stacks[t])
                                /\ t # selected => ~StackHides(stacks[t])
                                /\ NoBackFromHome(t) /\ HidingHasBack(t)
                                /\ GetShopHasSearch(t)
    BY DEF TabsOK, StackOK, NoBackFromHome, HidingHasBack, GetShopHasSearch, Top
<1> QED BY <1>1, <1>2, <1>3, <1>4 DEF NavInv, TabsOK, UserOK, TabBarFollowsScreen

\* A launch establishes it.
LEMMA InitInv == Init => TabsOK /\ UserOK
<1> SUFFICES ASSUME Init PROVE TabsOK /\ UserOK
    OBVIOUS
<1>1. \A t \in Tabs : /\ stacks[t] \in Seq(Screens) /\ Len(stacks[t]) = 1
                      /\ stacks[t][1] = t /\ DOMAIN stacks[t] = 1 .. 1
    BY DEF Init, Tabs, Screens
<1>2. \A t \in Tabs : ~StackHides(stacks[t])
    BY <1>1, RootShows
<1>3. \A t \in Tabs : StackOK(t, stacks[t], navBarHidden[t], getShops[t])
    <2> TAKE t \in Tabs
    <2>1. navBarHidden[t] \in BOOLEAN /\ getShops[t] = 0
        BY DEF Init
    <2>2. StackShape(stacks[t])
        BY <1>1 DEF StackShape
    <2> QED BY <1>1, <1>2, <2>1, <2>2 DEF StackOK
<1>4. stacks \in [Tabs -> Seq(Screens)] /\ selected \in Tabs
    BY <1>1 DEF Init, Tabs
<1>5. TabsOK
    BY <1>2, <1>3, <1>4 DEF Init, TabsOK
<1>6. UserOK
    <2>1. \A i \in DOMAIN stacks["account"] : stacks["account"][i] # "signUp"
        BY <1>1 DEF Tabs
    <2> QED BY <2>1 DEF Init, UserOK, SignedOutMeansNoForm, Kinds
<1> QED BY <1>5, <1>6

\* Fewer calls of getShop are as well.
LEMMA FewerCalls ==
    ASSUME NEW t, NEW s, NEW nav, NEW calls, StackOK(t, s, nav, calls),
           NEW left \in Nat, left > 0 => calls > 0
    PROVE  StackOK(t, s, nav, left)
BY DEF StackOK

\* A push on tab t, by any of the actions that push.
LEMMA PushStep ==
    ASSUME TabsOK, NEW t \in Tabs, NEW x \in Screens, Pushable(Top(t), x),
           NEW b \in [tab : BOOLEAN, nav : BOOLEAN],
           b.nav => navBarHidden[t], b.tab = tabBarHidden,
           x # "shopInfo" => t = selected,
           PushOn(t, x, b), selected' = selected,
           getShops' \in [Tabs -> Nat],
           \A u \in Tabs : getShops'[u] > 0 => getShops[u] > 0
    PROVE  TabsOK'
<1> DEFINE s == stacks[t]
           c == Appears(x, Disappears(s[Len(s)], b))
<1>1. StackOK(t, s, navBarHidden[t], getShops[t])
    BY DEF TabsOK
<1>2. Pushable(s[Len(s)], x) /\ (x # "shopInfo" => (b.tab <=> StackHides(s)))
    BY DEF Top, TabsOK
<1>3. /\ stacks' = [stacks EXCEPT ![t] = Append(s, x)]
      /\ tabBarHidden' = c.tab
      /\ navBarHidden' = [navBarHidden EXCEPT ![t] = c.nav]
    BY DEF PushOn, SetBars, Top
<1>4. /\ c \in [tab : BOOLEAN, nav : BOOLEAN]
      /\ StackOK(t, Append(s, x), c.nav, getShops[t])
      /\ (b.tab <=> StackHides(s)) => (c.tab <=> StackHides(Append(s, x)))
      /\ x = "shopInfo" => /\ c.tab = b.tab
                           /\ StackHides(Append(s, x)) <=> StackHides(s)
    BY <1>1, <1>2, PushKeeps
<1> HIDE DEF c
<1>5. /\ stacks' \in [Tabs -> Seq(Screens)]
      /\ stacks'[t] = Append(s, x) /\ navBarHidden'[t] = c.nav
      /\ \A u \in Tabs \ {t} : stacks'[u] = stacks[u] /\ navBarHidden'[u] = navBarHidden[u]
      /\ tabBarHidden' \in BOOLEAN /\ navBarHidden' \in [Tabs -> BOOLEAN]
    BY <1>3, <1>4 DEF TabsOK
<1>6. \A u \in Tabs : StackOK(u, stacks'[u], navBarHidden'[u], getShops'[u])
    <2> TAKE u \in Tabs
    <2>1. getShops'[u] \in Nat
        OBVIOUS
    <2>2. StackOK(u, stacks'[u], navBarHidden'[u], getShops[u])
        BY <1>4, <1>5 DEF TabsOK
    <2> QED BY <2>1, <2>2, FewerCalls
<1>7. \A u \in Tabs : u # selected' => ~StackHides(stacks'[u])
    BY <1>4, <1>5 DEF TabsOK
<1>8. tabBarHidden' <=> StackHides(stacks'[selected'])
    <2>1. CASE t = selected
        BY <1>3, <1>4, <1>5, <2>1 DEF TabsOK
    <2>2. CASE t # selected
        BY <1>3, <1>4, <1>5, <2>2 DEF TabsOK
    <2> QED BY <2>1, <2>2
<1> QED BY <1>5, <1>6, <1>7, <1>8 DEF TabsOK

\* The back button.
LEMMA PopStep == ASSUME TabsOK, popViewController PROVE TabsOK'
<1> DEFINE t == selected
           s == stacks[t]
           f == SubSeq(s, 1, Len(s) - 1)
           b == Bars(t)
           c == Appears(f[Len(f)], Disappears(s[Len(s)], b))
           left == IF s[Len(s)] = "search" THEN 0 ELSE getShops[t]
<1>1. /\ t \in Tabs /\ StackOK(t, s, navBarHidden[t], getShops[t])
      /\ Len(s) > 1 /\ ~navBarHidden[t]
      /\ b \in [tab : BOOLEAN, nav : BOOLEAN] /\ ~b.nav
      /\ b.tab <=> StackHides(s)
    BY DEF TabsOK, popViewController, Bars
<1>2. /\ c \in [tab : BOOLEAN, nav : BOOLEAN]
      /\ StackOK(t, f, c.nav, left)
      /\ c.tab <=> StackHides(f)
    BY <1>1, PopKeeps
<1>3. /\ stacks' = [stacks EXCEPT ![t] = f]
      /\ tabBarHidden' = c.tab
      /\ navBarHidden' = [navBarHidden EXCEPT ![t] = c.nav]
      /\ getShops' = [getShops EXCEPT ![t] = left]
      /\ selected' = selected
    BY DEF popViewController, SetBars, Top, TabsOK
<1> HIDE DEF b, c, f, left
<1>4. f \in Seq(Screens) /\ left \in Nat
    BY <1>2 DEF StackOK
<1>5. /\ stacks' \in [Tabs -> Seq(Screens)] /\ stacks'[t] = f
      /\ navBarHidden'[t] = c.nav /\ getShops'[t] = left
      /\ \A u \in Tabs \ {t} : /\ stacks'[u] = stacks[u]
                               /\ navBarHidden'[u] = navBarHidden[u]
                               /\ getShops'[u] = getShops[u]
      /\ tabBarHidden' \in BOOLEAN /\ navBarHidden' \in [Tabs -> BOOLEAN]
      /\ getShops' \in [Tabs -> Nat]
    BY <1>1, <1>2, <1>3, <1>4 DEF TabsOK
<1> QED BY <1>1, <1>2, <1>3, <1>5 DEF TabsOK

\* The selected tab is tapped, which only a visible tab bar allows.
LEMMA PopToRootStep == ASSUME TabsOK, popToRootViewController PROVE TabsOK'
<1> DEFINE t == selected
           d == Disappears(Top(t), Bars(t))
           c == Appears(t, d)
           f == <<t>>
<1>1. t \in Tabs /\ t \in Screens /\ tabBarHidden = FALSE
    BY DEF TabsOK, popToRootViewController, Tabs, Screens
<1>2. Bars(t) \in [tab : BOOLEAN, nav : BOOLEAN] /\ Bars(t).tab = FALSE
    BY <1>1 DEF Bars, TabsOK
<1>3. d \in [tab : BOOLEAN, nav : BOOLEAN] /\ d.tab = FALSE
    BY <1>2 DEF Disappears
<1>4. c \in [tab : BOOLEAN, nav : BOOLEAN] /\ c.tab = FALSE
    <2> HIDE DEF d
    <2> QED BY <1>1, <1>3 DEF Appears, HomeAppears, ShopAppears, SearchAppears,
                              AccountAppears, Tabs
<1>5. /\ f \in Seq(Screens) /\ Len(f) = 1 /\ DOMAIN f = 1 .. 1 /\ f[1] = t
      /\ ~StackHides(f)
    BY <1>1, RootShows
<1>6. /\ stacks' = [stacks EXCEPT ![t] = f]
      /\ tabBarHidden' = c.tab
      /\ navBarHidden' = [navBarHidden EXCEPT ![t] = c.nav]
      /\ getShops' = [getShops EXCEPT ![t] = 0]
      /\ selected' = selected
    BY DEF popToRootViewController, SetBars
<1> HIDE DEF c, d, f
<1>7. StackOK(t, f, c.nav, 0)
    <2>1. StackShape(f)
        BY <1>5 DEF StackShape
    <2> QED BY <1>4, <1>5, <2>1 DEF StackOK
<1>8. /\ stacks' \in [Tabs -> Seq(Screens)] /\ stacks'[t] = f
      /\ navBarHidden'[t] = c.nav /\ getShops'[t] = 0
      /\ \A u \in Tabs \ {t} : /\ stacks'[u] = stacks[u]
                               /\ navBarHidden'[u] = navBarHidden[u]
                               /\ getShops'[u] = getShops[u]
      /\ tabBarHidden' = FALSE /\ navBarHidden' \in [Tabs -> BOOLEAN]
      /\ getShops' \in [Tabs -> Nat]
    BY <1>1, <1>4, <1>5, <1>6 DEF TabsOK
<1> QED BY <1>1, <1>5, <1>6, <1>7, <1>8 DEF TabsOK

\* A tab is tapped.
LEMMA SelectStep == ASSUME TabsOK, NEW t \in Tabs, Select(t) PROVE TabsOK'
<1> DEFINE p == selected
           old == Disappears(Top(p), Bars(p))
           new == Appears(Top(t), Bars(t))
<1>1. /\ p \in Tabs /\ t # p /\ ~tabBarHidden
      /\ StackOK(p, stacks[p], navBarHidden[p], getShops[p])
      /\ StackOK(t, stacks[t], navBarHidden[t], getShops[t])
      /\ \A u \in Tabs : ~StackHides(stacks[u])
    BY DEF TabsOK, Select
<1>2. /\ Bars(p) \in [tab : BOOLEAN, nav : BOOLEAN] /\ Bars(p).nav = navBarHidden[p]
      /\ Bars(t) \in [tab : BOOLEAN, nav : BOOLEAN] /\ Bars(t).nav = navBarHidden[t]
      /\ Bars(t).tab = FALSE
    BY <1>1 DEF Bars, TabsOK
<1>3. StackOK(p, stacks[p], old.nav, getShops[p])
    BY <1>1, <1>2, LeaveKeeps DEF Top
<1>4. new.nav \in BOOLEAN /\ new.tab = FALSE /\ StackOK(t, stacks[t], new.nav, getShops[t])
    <2>1. Bars(t) = [tab |-> FALSE, nav |-> navBarHidden[t]]
        BY <1>1 DEF Bars, TabsOK
    <2> DEFINE b == [tab |-> FALSE, nav |-> navBarHidden[t]]
               c == Appears(stacks[t][Len(stacks[t])], b)
    <2>2. new = c
        BY <2>1 DEF Top
    <2>3. c.nav \in BOOLEAN
        BY <1>1, ArriveKeeps
    <2>4. c.tab = FALSE
        BY <1>1, ArriveKeeps
    <2>5. StackOK(t, stacks[t], c.nav, getShops[t])
        BY <1>1, ArriveKeeps
    <2> QED BY <2>2, <2>3, <2>4, <2>5
<1>5. /\ selected' = t /\ stacks' = stacks /\ getShops' = getShops
      /\ tabBarHidden' = new.tab
      /\ navBarHidden' = [navBarHidden EXCEPT ![p] = old.nav, ![t] = new.nav]
    BY DEF Select
<1> HIDE DEF old, new
<1>6. old.nav \in BOOLEAN
    BY <1>3 DEF StackOK
<1>7. /\ navBarHidden' \in [Tabs -> BOOLEAN]
      /\ navBarHidden'[p] = old.nav /\ navBarHidden'[t] = new.nav
      /\ \A u \in Tabs \ {p, t} : navBarHidden'[u] = navBarHidden[u]
    BY <1>1, <1>4, <1>5, <1>6 DEF TabsOK
<1> QED BY <1>1, <1>3, <1>4, <1>5, <1>7 DEF TabsOK

\* The bars and the stacks, action by action.
LEMMA TabsStep == ASSUME TabsOK, UserOK, Next PROVE TabsOK'
<1>0. /\ selected \in Tabs
      /\ \A t \in Tabs : /\ Bars(t) \in [tab : BOOLEAN, nav : BOOLEAN]
                         /\ Bars(t).nav = navBarHidden[t] /\ Bars(t).tab = tabBarHidden
    BY DEF TabsOK, Bars
<1>1. ASSUME NEW t \in Tabs, Select(t) PROVE TabsOK'
    BY <1>1, SelectStep
<1>2. ASSUME NEW t \in Tabs, GetShopAnswer(t) PROVE TabsOK'
    <2>1. /\ getShops' = [getShops EXCEPT ![t] = @ - 1] /\ getShops[t] > 0
          /\ selected' = selected
        BY <1>2 DEF GetShopAnswer
    <2>2. /\ getShops' \in [Tabs -> Nat]
          /\ \A u \in Tabs : getShops'[u] > 0 => getShops[u] > 0
        BY <2>1 DEF TabsOK
    <2>3. CASE PushOn(t, "shopInfo", Bars(t))
        <3>1. "shopInfo" \in Screens /\ Pushable(Top(t), "shopInfo")
            BY DEF Screens, Pushable
        <3> QED BY <1>0, <2>1, <2>2, <2>3, <3>1, PushStep
    <2>4. CASE UNCHANGED <<stacks, tabBarHidden, navBarHidden>>
        <3>1. \A u \in Tabs : StackOK(u, stacks[u], navBarHidden[u], getShops'[u])
            <4> TAKE u \in Tabs
            <4>1. StackOK(u, stacks[u], navBarHidden[u], getShops[u]) /\ getShops'[u] \in Nat
                BY <2>2 DEF TabsOK
            <4> QED BY <2>2, <4>1, FewerCalls
        <3> QED BY <2>1, <2>2, <2>4, <3>1 DEF TabsOK
    <2> QED BY <1>2, <2>3, <2>4 DEF GetShopAnswer
<1>3. ASSUME NEW x \in Screens, pushViewController(x) PROVE TabsOK'
    <2>1. /\ Pushable(Top(selected), x) /\ PushOn(selected, x, Bars(selected))
          /\ selected' = selected /\ getShops' = getShops
        BY <1>3 DEF pushViewController, Pushable
    <2>2. getShops \in [Tabs -> Nat]
        BY DEF TabsOK
    <2> QED BY <1>0, <2>1, <2>2, PushStep
<1>4. CASE popViewController
    BY <1>4, PopStep
<1>5. CASE TapResult
    <2>1. /\ getShops' = [getShops EXCEPT ![selected] = @ + 1]
          /\ UNCHANGED <<selected, stacks, tabBarHidden, navBarHidden>>
          /\ stacks[selected][Len(stacks[selected])] = "search"
        BY <1>5 DEF TapResult, Top
    <2>2. getShops' \in [Tabs -> Nat] /\ \A u \in Tabs \ {selected} : getShops'[u] = getShops[u]
        BY <2>1 DEF TabsOK
    <2>3. /\ StackOK(selected, stacks[selected], navBarHidden[selected], getShops[selected])
          /\ Len(stacks[selected]) \in DOMAIN stacks[selected]
        BY DEF TabsOK, StackOK
    <2>4. StackOK(selected, stacks[selected], navBarHidden[selected], getShops'[selected])
        BY <1>0, <2>1, <2>2, <2>3 DEF StackOK
    <2>5. \A u \in Tabs : StackOK(u, stacks[u], navBarHidden[u], getShops'[u])
        BY <2>2, <2>4 DEF TabsOK
    <2> QED BY <2>1, <2>2, <2>5 DEF TabsOK
<1>6. CASE pushSignUpVC
    <2> DEFINE b == [Bars(selected) EXCEPT !.nav = FALSE]
    <2>1. /\ Pushable(Top(selected), "signUp") /\ PushOn(selected, "signUp", b)
          /\ selected' = selected /\ getShops' = getShops /\ "signUp" \in Screens
        BY <1>6 DEF pushSignUpVC, FormOnTop, Pushable, Screens
    <2>2. b \in [tab : BOOLEAN, nav : BOOLEAN] /\ b.nav = FALSE /\ b.tab = tabBarHidden
        BY <1>0
    <2>3. getShops \in [Tabs -> Nat]
        BY DEF TabsOK
    <2> HIDE DEF b
    <2> QED BY <1>0, <2>1, <2>2, <2>3, PushStep
<1>7. CASE createNewAccount
    <2>1. /\ Pushable(Top(selected), "home") /\ PushOn(selected, "home", Bars(selected))
          /\ selected' = selected /\ getShops' = getShops /\ "home" \in Screens
        BY <1>7 DEF createNewAccount, Pushable, Screens
    <2>2. getShops \in [Tabs -> Nat]
        BY DEF TabsOK
    <2> QED BY <1>0, <2>1, <2>2, PushStep
<1>8. ASSUME NEW kind \in DOMAIN auths, signin(kind) PROVE TabsOK'
    BY <1>8 DEF signin, TabsOK
<1>9. ASSUME NEW kind \in DOMAIN auths, NEW ok \in BOOLEAN, AuthAnswer(kind, ok)
      PROVE  TabsOK'
    BY <1>9 DEF AuthAnswer, TabsOK
<1>10. CASE Relaunch
    <2>1. \A t \in Tabs : /\ stacks'[t] \in Seq(Screens) /\ Len(stacks'[t]) = 1
                          /\ stacks'[t][1] = t /\ DOMAIN stacks'[t] = 1 .. 1
        BY <1>10 DEF Relaunch, Tabs, Screens
    <2>2. \A t \in Tabs : ~StackHides(stacks'[t])
        BY <2>1, RootShows
    <2>3. \A t \in Tabs : StackOK(t, stacks'[t], navBarHidden'[t], getShops'[t])
        <3> TAKE t \in Tabs
        <3>1. navBarHidden'[t] \in BOOLEAN /\ getShops'[t] = 0
            BY <1>10 DEF Relaunch
        <3>2. StackShape(stacks'[t])
            BY <2>1 DEF StackShape
        <3> QED BY <2>1, <2>2, <3>1, <3>2 DEF StackOK
    <2>4. stacks' \in [Tabs -> Seq(Screens)] /\ selected' \in Tabs
        BY <1>10, <2>1 DEF Relaunch, Tabs
    <2> QED BY <1>10, <2>2, <2>3, <2>4 DEF Relaunch, TabsOK
<1>11. CASE popToRootViewController
    BY <1>11, PopToRootStep
<1> QED BY <1>1, <1>2, <1>3, <1>4, <1>5, <1>6, <1>7, <1>8, <1>9, <1>10, <1>11 DEF Next

\* A step adds a screen to a stack only through a push, and sign-ups only from
\* the form.
LEMMA NoSignUpStep ==
    ASSUME TabsOK, UserOK, Next, ~signedIn
    PROVE  \A i \in DOMAIN stacks'["account"] : stacks'["account"][i] # "signUp"
<1> DEFINE Clean(s) == \A i \in DOMAIN s : s[i] # "signUp"
<1>0. /\ "account" \in Tabs /\ selected \in Tabs /\ Clean(stacks["account"])
      /\ ~form /\ stacks \in [Tabs -> Seq(Screens)]
      /\ stacks["account"] \in Seq(Screens) /\ Len(stacks["account"]) > 0
    BY DEF TabsOK, StackOK, UserOK, SignedOutMeansNoForm, Tabs
<1>1. ASSUME NEW t \in Tabs, NEW x \in Screens, NEW b, PushOn(t, x, b), x # "signUp"
      PROVE  Clean(stacks'["account"])
    <2>1. stacks' = [stacks EXCEPT ![t] = Append(stacks[t], x)]
        BY <1>1 DEF PushOn
    <2>2. CASE t = "account"
        <3>1. stacks'["account"] = Append(stacks["account"], x)
            BY <1>0, <2>1, <2>2
        <3>2. \A i \in DOMAIN Append(stacks["account"], x) :
                  Append(stacks["account"], x)[i] # "signUp"
            BY <1>0, <1>1
        <3> QED BY <3>1, <3>2
    <2>3. CASE t # "account"
        BY <1>0, <2>1, <2>3
    <2> QED BY <2>2, <2>3
<1>2. ASSUME stacks'["account"] = stacks["account"] PROVE Clean(stacks'["account"])
    BY <1>0, <1>2
<1>3. ASSUME NEW t \in Tabs, GetShopAnswer(t) PROVE Clean(stacks'["account"])
    BY <1>1, <1>2, <1>3 DEF GetShopAnswer, Screens
<1>4. ASSUME NEW x \in Screens, pushViewController(x) PROVE Clean(stacks'["account"])
    <2>1. x # "signUp" /\ PushOn(selected, x, Bars(selected))
        BY <1>0, <1>4 DEF pushViewController, Pushes, Screens, Top, TabsOK, StackOK
    <2> QED BY <1>0, <1>1, <2>1
<1>5. CASE popViewController
    <2>1. stacks' = [stacks EXCEPT ![selected] =
                         SubSeq(stacks[selected], 1, Len(stacks[selected]) - 1)]
        BY <1>5 DEF popViewController
    <2>2. CASE selected = "account"
        <3>1. stacks'["account"] =
                  SubSeq(stacks["account"], 1, Len(stacks["account"]) - 1)
            BY <1>0, <2>1, <2>2
        <3>2. \A i \in DOMAIN stacks'["account"] :
                  /\ i \in DOMAIN stacks["account"]
                  /\ stacks'["account"][i] = stacks["account"][i]
            BY <1>0, <3>1
        <3> QED BY <1>0, <3>2
    <2>3. CASE selected # "account"
        BY <1>0, <1>2, <2>1, <2>3
    <2> QED BY <2>2, <2>3
<1>6. CASE pushSignUpVC
    BY <1>0, <1>6 DEF pushSignUpVC, FormOnTop
<1>7. CASE createNewAccount
    BY <1>0, <1>1, <1>7 DEF createNewAccount, Screens
<1>8. CASE Relaunch
    <2>1. stacks'["account"] = <<"account">>
        BY <1>0, <1>8 DEF Relaunch
    <2> QED BY <2>1
<1>9. ASSUME NEW t \in Tabs, Select(t) PROVE Clean(stacks'["account"])
    BY <1>2, <1>9 DEF Select
<1>10. CASE TapResult
    BY <1>2, <1>10 DEF TapResult
<1>11. ASSUME NEW kind \in DOMAIN auths,
              signin(kind) \/ \E ok \in BOOLEAN : AuthAnswer(kind, ok)
       PROVE  Clean(stacks'["account"])
    BY <1>2, <1>11 DEF signin, AuthAnswer
<1>12. CASE popToRootViewController
    <2>1. stacks' = [stacks EXCEPT ![selected] = <<selected>>]
        BY <1>12 DEF popToRootViewController
    <2>2. CASE selected = "account"
        <3>1. stacks'["account"] = <<"account">>
            BY <1>0, <2>1, <2>2
        <3> QED BY <3>1
    <2>3. CASE selected # "account"
        BY <1>0, <1>2, <2>1, <2>3
    <2> QED BY <2>2, <2>3
<1> QED BY <1>3, <1>4, <1>5, <1>6, <1>7, <1>8, <1>9, <1>10, <1>11, <1>12 DEF Next

\* Somebody who is signed out finds no form, so nothing of the user changes.
LEMMA UserStep ==
    ASSUME TabsOK, UserOK, Next
    PROVE  UserOK' /\ (~signedIn => ~signedIn')
<1>1. /\ form' \in BOOLEAN /\ signedIn' \in BOOLEAN /\ crashed' \in BOOLEAN
      /\ auths' \in [Kinds -> Nat]
    <2>0. /\ form \in BOOLEAN /\ signedIn \in BOOLEAN /\ crashed \in BOOLEAN
          /\ auths \in [Kinds -> Nat] /\ DOMAIN auths = Kinds
        BY DEF UserOK
    <2>1. ASSUME NEW kind \in Kinds, Ask(kind) PROVE auths' \in [Kinds -> Nat]
        BY <2>0, <2>1 DEF Ask
    <2>2. ASSUME NEW kind \in DOMAIN auths, signin(kind)
          PROVE  auths' \in [Kinds -> Nat] /\ UNCHANGED <<form, signedIn, crashed>>
        BY <2>0, <2>1, <2>2 DEF signin
    <2>3. ASSUME NEW kind \in DOMAIN auths, NEW ok \in BOOLEAN, AuthAnswer(kind, ok)
          PROVE  /\ auths' \in [Kinds -> Nat] /\ form' = form
                 /\ signedIn' \in BOOLEAN /\ crashed' \in BOOLEAN
        BY <2>0, <2>3 DEF AuthAnswer
    <2>4. CASE createNewAccount
        BY <2>0, <2>1, <2>4 DEF createNewAccount, Kinds
    <2>5. CASE Relaunch
        BY <2>0, <2>5 DEF Relaunch
    <2>6. ASSUME NEW t \in Tabs, Select(t) \/ GetShopAnswer(t)
          PROVE  form' \in BOOLEAN /\ UNCHANGED <<signedIn, crashed, auths>>
        BY <2>0, <2>6 DEF Select, GetShopAnswer, AddForm
    <2>7. ASSUME popViewController \/ popToRootViewController
          PROVE  form' \in BOOLEAN /\ UNCHANGED <<signedIn, crashed, auths>>
        BY <2>0, <2>7 DEF popViewController, popToRootViewController, AddForm
    <2>8. ASSUME TapResult \/ pushSignUpVC \/ \E x \in Screens : pushViewController(x)
          PROVE  UNCHANGED <<form, signedIn, crashed, auths>>
        BY <2>8 DEF TapResult, pushSignUpVC, pushViewController
    <2> QED BY <2>0, <2>2, <2>3, <2>4, <2>5, <2>6, <2>7, <2>8 DEF Next
<1>2. ASSUME ~signedIn
      PROVE  ~signedIn' /\ ~form' /\ \A k \in DOMAIN auths' : auths'[k] = 0
    <2>0. /\ ~form /\ auths \in [Kinds -> Nat] /\ \A k \in DOMAIN auths : auths[k] = 0
          /\ selected \in Tabs
        BY <1>2 DEF UserOK, SignedOutMeansNoForm, TabsOK
    <2>1. ASSUME NEW kind \in DOMAIN auths, signin(kind) PROVE FALSE
        BY <2>0, <2>1 DEF signin, FormOnTop
    <2>2. ASSUME NEW kind \in DOMAIN auths, NEW ok \in BOOLEAN, AuthAnswer(kind, ok)
          PROVE  FALSE
        BY <2>0, <2>2 DEF AuthAnswer
    <2>3. ASSUME createNewAccount PROVE FALSE
        <3>1. /\ stacks[selected][Len(stacks[selected])] = "signUp"
              /\ stacks[selected] \in Seq(Screens) /\ Len(stacks[selected]) > 0
              /\ stacks[selected][1] = selected /\ StackShape(stacks[selected])
            BY <2>0, <2>3 DEF createNewAccount, Top, TabsOK, StackOK
        <3>2. Len(stacks[selected]) \in DOMAIN stacks[selected]
            BY <3>1
        <3>3. selected = "account"
            <4>1. CASE Len(stacks[selected]) = 1
                BY <2>0, <3>1, <4>1 DEF Tabs
            <4>2. CASE Len(stacks[selected]) # 1
                <5>1. Len(stacks[selected]) \in 2 .. Len(stacks[selected])
                    BY <3>1, <4>2, AboveRoot
                <5>2. stacks[selected][1] = "account"
                    BY <3>1, <5>1 DEF StackShape
                <5> QED BY <3>1, <5>2
            <4> QED BY <4>1, <4>2
        <3> QED BY <1>2, <3>1, <3>2, <3>3 DEF UserOK, SignedOutMeansNoForm
    <2>4. CASE Relaunch
        BY <1>2, <2>0, <2>4 DEF Relaunch
    <2>5. ASSUME NEW t \in Tabs, Select(t) \/ GetShopAnswer(t)
          PROVE  ~signedIn' /\ ~form' /\ auths' = auths
        <3>1. CASE Select(t)
            <4>1. /\ form' = (form \/ (Top(t) = "account" /\ signedIn))
                  /\ signedIn' = signedIn /\ auths' = auths
                BY <3>1 DEF Select, AddForm
            <4> QED BY <1>2, <2>0, <4>1
        <3>2. CASE GetShopAnswer(t)
            BY <1>2, <2>0, <3>2 DEF GetShopAnswer
        <3> QED BY <2>5, <3>1, <3>2
    <2>6. ASSUME popViewController \/ popToRootViewController
          PROVE  ~signedIn' /\ ~form' /\ auths' = auths
        <3>1. CASE popViewController
            BY <1>2, <2>0, <3>1 DEF popViewController, AddForm
        <3>2. CASE popToRootViewController
            BY <1>2, <2>0, <3>2 DEF popToRootViewController, AddForm
        <3> QED BY <2>6, <3>1, <3>2
    <2>7. ASSUME TapResult \/ pushSignUpVC \/ \E x \in Screens : pushViewController(x)
          PROVE  ~signedIn' /\ ~form' /\ auths' = auths
        BY <1>2, <2>0, <2>7 DEF TapResult, pushSignUpVC, pushViewController
    <2> QED BY <2>0, <2>1, <2>2, <2>3, <2>4, <2>5, <2>6, <2>7 DEF Next
<1>3. SignedOutMeansNoForm'
    <2>1. CASE signedIn
        <3>1. signedIn'
            BY <2>1 DEF Next, popToRootViewController, Select, GetShopAnswer, pushViewController, popViewController,
                       TapResult, pushSignUpVC, createNewAccount, signin, AuthAnswer,
                       Relaunch
        <3> QED BY <3>1 DEF SignedOutMeansNoForm
    <2>2. CASE ~signedIn
        BY <1>2, <2>2, NoSignUpStep DEF SignedOutMeansNoForm
    <2> QED BY <2>1, <2>2
<1> QED BY <1>1, <1>2, <1>3 DEF UserOK

-----------------------------------------------------------------------------
(* The theorems.                                                           *)

\* NavInv holds in every reachable state: whatever the depth of the stacks, the
\* tab bar is the one the selected stack wants.
THEOREM NavInvariance == Spec => []NavInv
<1>1. Init => TabsOK /\ UserOK
    BY InitInv
<1>2. TabsOK /\ UserOK /\ [Next]_vars => (TabsOK /\ UserOK)'
    <2>1. ASSUME TabsOK, UserOK, UNCHANGED vars PROVE TabsOK' /\ UserOK'
        BY <2>1 DEF vars, TabsOK, UserOK, SignedOutMeansNoForm
    <2> QED BY <2>1, TabsStep, UserStep
<1>3. TabsOK /\ UserOK => NavInv
    BY InvByTab
<1> QED BY <1>1, <1>2, <1>3, PTL DEF Spec

\* The tab bar of FLTabBarController is never left as another screen set it.
THEOREM NavTabBarFollowsScreen == Spec => []TabBarFollowsScreen
<1>1. NavInv => TabBarFollowsScreen
    BY DEF NavInv
<1> QED BY <1>1, NavInvariance, PTL

\* A screen that hides the tab bar always keeps a way back.
THEOREM NavAlwaysWayOut == Spec => []AlwaysWayOut
<1>1. NavInv => AlwaysWayOut
    <2> SUFFICES ASSUME NavInv, tabBarHidden
                 PROVE  Len(stacks[selected]) > 1 /\ ~navBarHidden[selected]
        BY DEF AlwaysWayOut
    <2>1. /\ selected \in Tabs /\ stacks[selected] \in Seq(Screens)
          /\ Len(stacks[selected]) > 0 /\ stacks[selected][1] = selected
          /\ StackHides(stacks[selected])
        BY DEF NavInv, NavTypeOK, TabBarFollowsScreen
    <2>2. Len(stacks[selected]) # 1
        BY <2>1, RootShows
    <2>3. ~navBarHidden[selected]
        BY <2>1 DEF NavInv, HidingHasBack
    <2> QED BY <2>1, <2>2, <2>3, AboveRoot
<1> QED BY <1>1, NavInvariance, PTL

\* Nobody signs in on a device where nobody is signed in (AccountVC:22).
THEOREM NavSignedOutForever == Spec => SignedOutForever
<1>1. NavInv /\ [Next]_vars => [~signedIn => ~signedIn']_vars
    BY InvByTab, UserStep DEF vars
<1> QED BY <1>1, NavInvariance, PTL DEF Spec, SignedOutForever

\* A sign-up is the second and last screen of its stack, over the account.
LEMMA SignUpAlone ==
    ASSUME NEW s \in Seq(Screens), Len(s) > 0, s[1] = "account", StackShape(s),
           s[Len(s)] = "signUp"
    PROVE  Len(s) = 2 /\ \A i \in DOMAIN s : s[i] # "search"
<1>1. Len(s) \in Nat /\ DOMAIN s = 1 .. Len(s) /\ Len(s) # 1
    OBVIOUS
<1>2. Len(s) \in 2 .. Len(s)
    BY <1>1, AboveRoot
<1>3. Len(s) = 2
    BY <1>2 DEF StackShape
<1>4. \A i \in DOMAIN s : i = 1 \/ i = 2
    BY <1>1, <1>3
<1> QED BY <1>3, <1>4

\* The sign-up hides the bar as it disappears and does not bring it back as it
\* appears (SignUpVC:34-38); only leaving it for good gives the bar back.
THEOREM NavSignUpStranded == Spec => SignUpStranded
<1> DEFINE Same == UNCHANGED <<stacks["account"], navBarHidden["account"]>>
           A == Top("account") = "signUp" /\ navBarHidden["account"]
                    => Same \/ createNewAccount \/ popToRootViewController \/ Relaunch
<1>1. NavInv /\ [Next]_vars => [A]_vars
    <2> SUFFICES ASSUME NavInv, Next, Top("account") = "signUp",
                        navBarHidden["account"]
                 PROVE  Same \/ createNewAccount \/ popToRootViewController \/ Relaunch
        OBVIOUS
    <2> DEFINE s == stacks["account"]
    <2>1. /\ "account" \in Tabs /\ selected \in Tabs
          /\ stacks \in [Tabs -> Seq(Screens)] /\ navBarHidden \in [Tabs -> BOOLEAN]
          /\ getShops \in [Tabs -> Nat]
        BY DEF NavInv, NavTypeOK, Tabs
    <2>2. /\ s \in Seq(Screens) /\ Len(s) > 0 /\ s[1] = "account" /\ StackShape(s)
          /\ s[Len(s)] = "signUp"
        BY <2>1 DEF NavInv, NavTypeOK, Top
    <2>3. \A i \in DOMAIN s : s[i] # "search"
        BY <2>2, SignUpAlone
    <2>4. ~(getShops["account"] > 0)
        BY <2>1, <2>3 DEF NavInv, GetShopHasSearch
    \* A push or a change of bars on another tab is not one on this.
    <2>5. ASSUME NEW t \in Tabs, t # "account", NEW x, NEW b, PushOn(t, x, b)
          PROVE  Same
        BY <2>1, <2>5 DEF PushOn, SetBars
    <2>6. ASSUME NEW t \in Tabs, Select(t) PROVE Same
        <3>1. UNCHANGED stacks
            BY <2>6 DEF Select
        <3>2. CASE t = "account"
            <4>1. Appears(Top(t), Bars(t)).nav = TRUE
                BY <3>2 DEF Appears, Bars
            <4> QED BY <2>1, <2>6, <3>1, <3>2, <4>1 DEF Select
        <3>3. CASE selected = "account"
            <4>1. Disappears(Top(selected), Bars(selected)).nav = TRUE
                BY <3>3 DEF Disappears, Bars
            <4> QED BY <2>1, <2>6, <3>1, <3>3, <4>1 DEF Select
        <3>4. CASE t # "account" /\ selected # "account"
            BY <2>1, <2>6, <3>1, <3>4 DEF Select
        <3> QED BY <3>2, <3>3, <3>4
    <2>7. ASSUME NEW t \in Tabs, GetShopAnswer(t) PROVE Same
        <3>1. t # "account"
            BY <2>4, <2>7 DEF GetShopAnswer
        <3> QED BY <2>5, <2>7, <3>1 DEF GetShopAnswer
    <2>8. ASSUME NEW x \in Screens, pushViewController(x) PROVE Same
        <3>1. selected # "account"
            BY <2>8 DEF pushViewController, Pushes, Screens
        <3> QED BY <2>1, <2>5, <2>8, <3>1 DEF pushViewController
    <2>9. CASE pushSignUpVC
        <3>1. selected # "account"
            BY <2>9 DEF pushSignUpVC, FormOnTop
        <3> QED BY <2>1, <2>5, <2>9, <3>1 DEF pushSignUpVC
    <2>10. CASE popViewController
        <3>1. selected # "account"
            BY <2>10 DEF popViewController
        <3> QED BY <2>1, <2>10, <3>1 DEF popViewController, SetBars
    <2>11. CASE TapResult \/ \E kind \in DOMAIN auths :
                    signin(kind) \/ \E ok \in BOOLEAN : AuthAnswer(kind, ok)
        BY <2>11 DEF TapResult, signin, AuthAnswer
    <2> QED BY <2>6, <2>7, <2>8, <2>9, <2>10, <2>11 DEF Next
<1> QED BY <1>1, NavInvariance, PTL DEF Spec, SignUpStranded

\* The home screen that createNewAccount pushes has no back button
\* (SignUpVC:226, HomeVC:73): it leaves its stack with all the others or never.
THEOREM NavHomeOnAccountStays == Spec => HomeOnAccountStays
<1> DEFINE Kept(i) == i \in DOMAIN stacks'["account"] /\ stacks'["account"][i] = "home"
           Gone == stacks'["account"] = <<"account">>
<1>1. NavInv /\ [Next]_vars =>
          [\A i \in DOMAIN stacks["account"] :
               stacks["account"][i] = "home"
                   => \/ i \in DOMAIN stacks'["account"] /\ stacks'["account"][i] = "home"
                      \/ stacks'["account"] = <<"account">>]_vars
    <2> DEFINE s == stacks["account"]
    <2> SUFFICES ASSUME NavInv, Next, NEW i \in DOMAIN s, s[i] = "home"
                 PROVE  Kept(i) \/ Gone
        OBVIOUS
    <2>1. /\ "account" \in Tabs /\ selected \in Tabs
          /\ stacks \in [Tabs -> Seq(Screens)]
        BY DEF NavInv, NavTypeOK, Tabs
    <2>2. /\ s \in Seq(Screens) /\ Len(s) \in Nat /\ s[1] = "account"
          /\ i \in 1 .. Len(s)
        BY <2>1 DEF NavInv, NavTypeOK
    <2>3. CASE UNCHANGED stacks["account"]
        BY <2>3
    <2>4. ASSUME NEW t \in Tabs, NEW x \in Screens, NEW b, PushOn(t, x, b)
          PROVE  Kept(i)
        <3>1. stacks'["account"] \in {s, Append(s, x)}
            BY <2>1, <2>4 DEF PushOn
        <3> QED BY <2>2, <3>1
    <2>5. CASE popViewController
        <3>1. CASE selected = "account"
            <4>1. ~navBarHidden["account"] /\ Len(s) > 1
                  /\ stacks'["account"] = SubSeq(s, 1, Len(s) - 1)
                BY <2>1, <2>5, <3>1 DEF popViewController
            <4>2. s[Len(s)] # "home"
                BY <2>1, <4>1 DEF NavInv, NoBackFromHome, Top
            <4>3. i \in 1 .. Len(s) - 1
                BY <2>2, <4>2
            <4> QED BY <2>2, <4>1, <4>3
        <3>2. CASE selected # "account"
            BY <2>1, <2>3, <2>5, <3>2 DEF popViewController
        <3> QED BY <3>1, <3>2
    <2>6. CASE popToRootViewController
        BY <2>1, <2>3, <2>6 DEF popToRootViewController
    <2>7. CASE Relaunch
        BY <2>1, <2>7 DEF Relaunch
    <2>8. ASSUME NEW t \in Tabs, Select(t) \/ GetShopAnswer(t)
          PROVE  Kept(i) \/ Gone
        BY <2>3, <2>4, <2>8 DEF Select, GetShopAnswer, Screens
    <2>9. CASE pushSignUpVC \/ createNewAccount
                  \/ \E x \in Screens : pushViewController(x)
        BY <2>1, <2>4, <2>9
           DEF pushSignUpVC, createNewAccount, pushViewController, Screens
    <2>10. CASE TapResult \/ \E kind \in DOMAIN auths :
                    signin(kind) \/ \E ok \in BOOLEAN : AuthAnswer(kind, ok)
        BY <2>3, <2>10 DEF TapResult, signin, AuthAnswer
    <2> QED BY <2>5, <2>6, <2>7, <2>8, <2>9, <2>10 DEF Next
<1> QED BY <1>1, NavInvariance, PTL DEF Spec, HomeOnAccountStays

=============================================================================
