------------------------------ MODULE Navigation ------------------------------
(***************************************************************************)
(* The tabs of FLTabBarController, the stack of screens of each, and the   *)
(* two bars that lead out of a screen: the tab bar, which all tabs share,  *)
(* and the navigation bar of each stack, which holds the back button.  No  *)
(* screen owns a bar: the screens that care set them when they appear,     *)
(* SignUpVC when it disappears, and the others inherit what they find.     *)
(*                                                                         *)
(* Firebase keeps the signed-in user in the keychain, so signedIn outlives *)
(* the process (and an earlier installation).  The screens' own contents   *)
(* are the other modules'; here a tap is possible whenever its screen is   *)
(* on top.                                                                 *)
(***************************************************************************)
EXTENDS Naturals, Sequences

CONSTANTS
    MaxDepth,       \* bound: screens on one stack
    MaxAnswers      \* bound: calls of one kind that have not answered

ASSUME NavAssumption == MaxDepth \in Nat /\ MaxAnswers \in Nat

VARIABLES
    selected,       \* the selected tab
    stacks,         \* the screens of each tab, root first
    tabBarHidden,
    navBarHidden,   \* for each tab
    form,           \* SignInVC has been added to AccountVC
    signedIn,       \* Auth.auth().currentUser != nil
    getShops,       \* calls of getShop by the tab's SearchVC
    auths,          \* calls that sign in, for each kind, unanswered
    crashed         \* the answer to a sign-in was unwrapped and nil

vars == <<selected, stacks, tabBarHidden, navBarHidden, form, signedIn,
          getShops, auths, crashed>>

Tabs == {"home", "shop", "wallet", "account"}

\* ShopVC is "shop" as a tab and "category" when it is pushed for a category.
Screens == {"home", "shop", "wallet", "account", "category", "search",
            "shopInfo", "product", "event", "signUp"}

\* What the screens push when they are tapped, SearchVC's shops and the sign-up
\* apart.
Pushes ==
    [s \in Screens |->
        CASE s = "home"                 -> {"category", "search"}
          [] s \in {"shop", "category"} -> {"shopInfo", "search"}
          [] s = "shopInfo"             -> {"shopInfo", "product", "event"}
          [] OTHER                      -> {}]

Top(t) == stacks[t][Len(stacks[t])]

-----------------------------------------------------------------------------
(* What a screen does to the bars: of the tab bar and its own stack's.     *)

Bars(t) == [tab |-> tabBarHidden, nav |-> navBarHidden[t]]

\* Variants: HomeVC does not bring the tab bar back; it leaves the navigation
\* bar as it is; ShopVC only ever hides the tab bar.
HomeAppearsOnly(b) == [b EXCEPT !.nav = TRUE]
HomeAppearsWithBar(b) == [b EXCEPT !.tab = FALSE]
ShopAppearsNoElse(b, pushed) == [tab |-> b.tab \/ pushed, nav |-> FALSE]

HomeAppears(b) == [tab |-> FALSE, nav |-> TRUE]

ShopAppears(b, pushed) == [tab |-> pushed, nav |-> FALSE]

SearchAppears(b) == [tab |-> TRUE, nav |-> FALSE]

AccountAppears(b) == [b EXCEPT !.nav = TRUE]

\* Variant: SignUpVC shows the bar again when it comes back.
AppearsSymmetric(s, b) ==
    CASE s = "home" -> HomeAppears(b)
      [] s \in {"shop", "category"} -> ShopAppears(b, s = "category")
      [] s = "search" -> SearchAppears(b)
      [] s = "account" -> AccountAppears(b)
      [] s = "signUp" -> [b EXCEPT !.nav = FALSE]
      [] OTHER -> b

Appears(s, b) ==
    CASE s = "home" -> HomeAppears(b)
      [] s \in {"shop", "category"} -> ShopAppears(b, s = "category")
      [] s = "search" -> SearchAppears(b)
      [] s = "account" -> AccountAppears(b)
      [] OTHER -> b

Disappears(s, b) == IF s = "signUp" THEN [b EXCEPT !.nav = TRUE] ELSE b

SetBars(t, b) ==
    /\ tabBarHidden' = b.tab
    /\ navBarHidden' = [navBarHidden EXCEPT ![t] = b.nav]

\* Variant: the form is for those who have not signed in.
AddFormSignedOut(s) == form' = (form \/ (s = "account" /\ ~signedIn))

\* AccountVC: the form is added when somebody is signed in.
AddForm(s) == form' = (form \/ (s = "account" /\ signedIn))

-----------------------------------------------------------------------------
\* SceneDelegate: a new FLTabBarController on its first tab.
Init ==
    /\ selected = "home"
    /\ stacks = [t \in Tabs |-> <<t>>]
    /\ tabBarHidden = FALSE
    /\ navBarHidden = [t \in Tabs |-> t = "home"]
    /\ form = FALSE
    /\ getShops = [t \in Tabs |-> 0]
    /\ auths = [k \in {"signIn", "createUser", "google"} |-> 0]
    /\ crashed = FALSE
    /\ signedIn \in BOOLEAN

\* A tab is tapped.
Select(t) ==
    /\ ~crashed /\ ~tabBarHidden /\ t # selected
    /\ selected' = t
    /\ LET old == Disappears(Top(selected), Bars(selected))
           new == Appears(Top(t), Bars(t))
       IN  /\ tabBarHidden' = new.tab
           /\ navBarHidden' = [navBarHidden EXCEPT ![selected] = old.nav,
                                                   ![t] = new.nav]
    /\ AddForm(Top(t))
    /\ UNCHANGED <<stacks, signedIn, getShops, auths, crashed>>

PushOn(t, s, b) ==
    /\ Len(stacks[t]) < MaxDepth
    /\ stacks' = [stacks EXCEPT ![t] = Append(@, s)]
    /\ SetBars(t, Appears(s, Disappears(Top(t), b)))

pushViewController(s) ==
    /\ ~crashed /\ s \in Pushes[Top(selected)]
    /\ PushOn(selected, s, Bars(selected))
    /\ UNCHANGED <<selected, form, signedIn, getShops, auths, crashed>>

\* Variant: any screen can be popped.
popAnyViewController ==
    LET t == selected
        s == SubSeq(stacks[t], 1, Len(stacks[t]) - 1)
    IN  /\ ~crashed /\ ~navBarHidden[t]
        /\ stacks' = [stacks EXCEPT ![t] = s]
        /\ UNCHANGED <<selected, tabBarHidden, navBarHidden, form, signedIn,
                       getShops, auths, crashed>>

\* The back button of the navigation bar (the cancel button of SearchVC).
popViewController ==
    LET t == selected
        s == SubSeq(stacks[t], 1, Len(stacks[t]) - 1)
    IN  /\ ~crashed /\ ~navBarHidden[t] /\ Len(stacks[t]) > 1
        /\ stacks' = [stacks EXCEPT ![t] = s]
        /\ SetBars(t, Appears(s[Len(s)], Disappears(Top(t), Bars(t))))
        /\ AddForm(s[Len(s)])
        /\ getShops' = [getShops EXCEPT ![t] = IF Top(t) = "search" THEN 0 ELSE @]
        /\ UNCHANGED <<selected, signedIn, auths, crashed>>

\* The selected tab is tapped: UITabBarController pops all but the root.
popToRootViewController ==
    LET t == selected IN
    /\ ~crashed /\ ~tabBarHidden /\ Len(stacks[t]) > 1
    /\ stacks' = [stacks EXCEPT ![t] = <<t>>]
    /\ SetBars(t, Appears(t, Disappears(Top(t), Bars(t))))
    /\ AddForm(t)
    /\ getShops' = [getShops EXCEPT ![t] = 0]
    /\ UNCHANGED <<selected, signedIn, auths, crashed>>

-----------------------------------------------------------------------------
\* A search result is tapped, and taps are not counted.
TapResult ==
    /\ ~crashed /\ Top(selected) = "search" /\ getShops[selected] < MaxAnswers
    /\ getShops' = [getShops EXCEPT ![selected] = @ + 1]
    /\ UNCHANGED <<selected, stacks, tabBarHidden, navBarHidden, form, signedIn,
                   auths, crashed>>

\* The completion of getShop pushes ShopInfoVC, whatever is on top by now, or
\* posts an alert.
GetShopAnswer(t) ==
    /\ ~crashed /\ getShops[t] > 0
    /\ getShops' = [getShops EXCEPT ![t] = @ - 1]
    /\ \/ PushOn(t, "shopInfo", Bars(t))
       \/ UNCHANGED <<stacks, tabBarHidden, navBarHidden>>
    /\ UNCHANGED <<selected, form, signedIn, auths, crashed>>

FormOnTop == ~crashed /\ Top(selected) = "account" /\ form

\* The button of SignInVC, which shows the bar before it pushes.
pushSignUpVC ==
    /\ FormOnTop
    /\ PushOn(selected, "signUp", [Bars(selected) EXCEPT !.nav = FALSE])
    /\ UNCHANGED <<selected, form, signedIn, getShops, auths, crashed>>

Ask(kind) ==
    /\ auths[kind] < MaxAnswers
    /\ auths' = [auths EXCEPT ![kind] = @ + 1]

\* The button of SignInVC with a valid form, or GIDSignInButton.
signin(kind) ==
    /\ FormOnTop /\ kind \in {"signIn", "google"}
    /\ Ask(kind)
    /\ UNCHANGED <<selected, stacks, tabBarHidden, navBarHidden, form, signedIn,
                   getShops, crashed>>

\* The button of SignUpVC with a valid form: a home screen is pushed before the
\* user exists.
createNewAccount ==
    /\ ~crashed /\ Top(selected) = "signUp"
    /\ Ask("createUser")
    /\ PushOn(selected, "home", Bars(selected))
    /\ UNCHANGED <<selected, form, signedIn, getShops, crashed>>

\* The completions: an error is printed, but by SignInVC, which unwraps the
\* result before it looks.
AuthAnswer(kind, ok) ==
    /\ ~crashed /\ auths[kind] > 0
    /\ auths' = [auths EXCEPT ![kind] = @ - 1]
    /\ signedIn' = (signedIn \/ ok)
    /\ crashed' = (~ok /\ kind = "signIn")
    /\ UNCHANGED <<selected, stacks, tabBarHidden, navBarHidden, form, getShops>>

\* The process is started again, after a crash or after the user ended it.
Relaunch ==
    /\ selected' = "home"
    /\ stacks' = [t \in Tabs |-> <<t>>]
    /\ tabBarHidden' = FALSE
    /\ navBarHidden' = [t \in Tabs |-> t = "home"]
    /\ form' = FALSE
    /\ getShops' = [t \in Tabs |-> 0]
    /\ auths' = [k \in DOMAIN auths |-> 0]
    /\ crashed' = FALSE
    /\ UNCHANGED signedIn

Next ==
    \/ \E t \in Tabs : Select(t) \/ GetShopAnswer(t)
    \/ \E s \in Screens : pushViewController(s)
    \/ popViewController \/ popToRootViewController
    \/ TapResult \/ pushSignUpVC \/ createNewAccount
    \/ \E kind \in DOMAIN auths :
           signin(kind) \/ \E ok \in BOOLEAN : AuthAnswer(kind, ok)
    \/ Relaunch

Spec == Init /\ [][Next]_vars

-----------------------------------------------------------------------------
\* The last screen of a stack that sets the tab bar hides it.
Deciding == {"home", "shop", "category", "search"}

StackHides(s) ==
    \E i \in DOMAIN s :
        /\ s[i] \in {"category", "search"}
        /\ \A j \in DOMAIN s : j > i => s[j] \notin Deciding

(***************************************************************************)
(* The type invariant, with the shape of the stacks: the root is the tab's *)
(* own and is never popped.                                                *)
(***************************************************************************)
NavTypeOK ==
    /\ selected \in Tabs
    /\ stacks \in [Tabs -> Seq(Screens)]
    /\ \A t \in Tabs : Len(stacks[t]) > 0 /\ stacks[t][1] = t
    /\ tabBarHidden \in BOOLEAN
    /\ navBarHidden \in [Tabs -> BOOLEAN]
    /\ form \in BOOLEAN /\ signedIn \in BOOLEAN /\ crashed \in BOOLEAN
    /\ getShops \in [Tabs -> Nat]
    /\ auths \in [{"signIn", "createUser", "google"} -> Nat]

(***************************************************************************)
(* The tab bar is hidden exactly when the last screen of the selected      *)
(* stack that sets it hides it, although most screens set nothing, one bar *)
(* serves four stacks, and a late answer can push a screen.                *)
(***************************************************************************)
TabBarFollowsScreen == tabBarHidden <=> StackHides(stacks[selected])

(***************************************************************************)
(* The user is never shut in: under a hidden tab bar there is a screen to  *)
(* go back to and a navigation bar to do it with.                          *)
(***************************************************************************)
AlwaysWayOut ==
    tabBarHidden => Len(stacks[selected]) > 1 /\ ~navBarHidden[selected]

(***************************************************************************)
(* The inductive invariant of Navigation_proofs, with the reasons the      *)
(* properties here hold for: a screen that hides the tab bar lies directly *)
(* on one that sets it, and the home screen on a sign-up has no back       *)
(* button, so no pop uncovers a screen that inherits the wrong bar; a tab  *)
(* is only left while the bar is visible; and form, sign-up and unanswered *)
(* sign-ins all come from somebody signed in.                              *)
(***************************************************************************)
StackShape(s) ==
    \A i \in 2 .. Len(s) :
        /\ s[i] \notin {"shop", "wallet", "account"}
        /\ s[i] \in {"category", "search"} => s[i - 1] \in Deciding
        /\ s[i] = "signUp" => i = 2 /\ s[1] = "account"
        /\ s[i] = "home" => s[i - 1] = "signUp"

NoBackFromHome(t) == Len(stacks[t]) > 1 /\ Top(t) = "home" => navBarHidden[t]

HidingHasBack(t) == StackHides(stacks[t]) => ~navBarHidden[t]

GetShopHasSearch(t) ==
    getShops[t] > 0 => \E i \in DOMAIN stacks[t] : stacks[t][i] = "search"

SignedOutMeansNoForm ==
    ~signedIn => /\ ~form
                 /\ \A k \in DOMAIN auths : auths[k] = 0
                 /\ \A i \in DOMAIN stacks["account"] : stacks["account"][i] # "signUp"

NavInv ==
    /\ NavTypeOK
    /\ TabBarFollowsScreen
    /\ \A t \in Tabs : /\ StackShape(stacks[t])
                       /\ t # selected => ~StackHides(stacks[t])
                       /\ NoBackFromHome(t) /\ HidingHasBack(t)
                       /\ GetShopHasSearch(t)
    /\ SignedOutMeansNoForm

(***************************************************************************)
(* Leaving the sign-up for another tab loses its back button for good: it  *)
(* hides the bar as it disappears and never shows it again.  What is left  *)
(* is to create the account, or to tap the tab a second time.              *)
(***************************************************************************)
SignUpStranded ==
    [][ Top("account") = "signUp" /\ navBarHidden["account"]
            => \/ UNCHANGED <<stacks["account"], navBarHidden["account"]>>
               \/ createNewAccount \/ popToRootViewController \/ Relaunch ]_vars

(***************************************************************************)
(* The home screen pushed after a sign-up has no way back to the sign-up,  *)
(* which an account refused by the server would need: it is replaced by    *)
(* the root of its tab or not at all.                                      *)
(***************************************************************************)
HomeOnAccountStays ==
    [][ \A i \in DOMAIN stacks["account"] :
            stacks["account"][i] = "home"
                => \/ i \in DOMAIN stacks'["account"] /\ stacks'["account"][i] = "home"
                   \/ stacks'["account"] = <<"account">> ]_vars

(***************************************************************************)
(* AccountVC offers the form only when somebody is signed in, and every    *)
(* way to sign in starts from the form: a device on which nobody is signed *)
(* in stays so, through relaunches too.                                    *)
(***************************************************************************)
SignedOutForever == [][~signedIn => ~signedIn']_vars

=============================================================================
