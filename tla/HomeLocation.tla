----------------------------- MODULE HomeLocation -----------------------------
(***************************************************************************)
(* The location half of HomeVC, composed with its feed half: permission to *)
(* use the location, the stream of locations, one reverse geocoding at a   *)
(* time, and the address label above the feed.  It shares the main queue   *)
(* and the presentation slot with the feed, to which it posts alerts, and  *)
(* dies with it when the feed crashes.                                     *)
(*                                                                         *)
(* The location service is outside the program: services and status are    *)
(* settings of the device the user may change at any time.                 *)
(***************************************************************************)
EXTENDS HomeVC

CONSTANTS
    Places,     \* locations; the geocoder names each by its address
    Nowhere     \* nil, for location and placemark

ASSUME PlaceAssumption == Nowhere \notin Places

VARIABLES
    services,       \* location services are enabled on the device
    status,         \* the authorization the user gave the app
    loaded,         \* viewDidLoad has run
    delegateSet,    \* locationManager.delegate = self
    callbackDue,    \* the system has a didChangeAuthorization to deliver
    updating,       \* startUpdatingLocation was called
    location, placemark, lastGeocodingError,
    isPerformingReverseGeocoding,
    requests,       \* places given to the geocoder and not answered
    label           \* text of homeLocationVC

deviceVars == <<services, status>>
geoVars == <<location, placemark, lastGeocodingError,
             isPerformingReverseGeocoding, requests>>
locVars == <<deviceVars, loaded, delegateSet, callbackDue, updating, geoVars,
             label>>
vars == <<homeVars, locVars>>

\* Denied, restricted and unknown statuses are answered alike: with an alert.
Statuses == {"notDetermined", "refused", "authorized"}

Messages == {"", "unavailable", "searching", "error", "notFound"}

-----------------------------------------------------------------------------
\* The text updateAddress sets.
Address(loc, mark, busy, err) ==
    CASE loc = Nowhere -> "unavailable"
      [] loc # Nowhere /\ mark # Nowhere -> mark
      [] loc # Nowhere /\ mark = Nowhere /\ busy -> "searching"
      [] loc # Nowhere /\ mark = Nowhere /\ ~busy /\ err -> "error"
      [] OTHER -> "notFound"

updateAddress ==
    label' = Address(location', placemark', isPerformingReverseGeocoding',
                     lastGeocodingError')

Init ==
    /\ HomeInit
    /\ services \in BOOLEAN /\ status \in Statuses
    /\ loaded = FALSE /\ delegateSet = FALSE /\ callbackDue = FALSE
    /\ updating = FALSE
    /\ location = Nowhere /\ placemark = Nowhere
    /\ lastGeocodingError = FALSE
    /\ isPerformingReverseGeocoding = FALSE
    /\ requests = << >>
    /\ label = ""

\* Requesting the authorization is a no-op unless it is not determined.
checkLocationAuthorization ==
    /\ UNCHANGED geoVars
    /\ IF status = "authorized"
       THEN updating' = TRUE /\ updateAddress /\ UNCHANGED homeVars
       ELSE /\ UNCHANGED <<updating, label>>
            /\ IF status = "notDetermined" THEN UNCHANGED homeVars
                                           ELSE LocationAlert

\* viewDidLoad: checkLocationSevices.  Setting the delegate makes the system
\* report the authorization once.
viewDidLoad ==
    /\ ~crashed /\ ~loaded
    /\ loaded' = TRUE
    /\ IF services
       THEN /\ delegateSet' = TRUE /\ callbackDue' = TRUE
            /\ checkLocationAuthorization
       ELSE /\ LocationAlert
            /\ UNCHANGED <<delegateSet, callbackDue, updating, geoVars, label>>
    /\ UNCHANGED deviceVars

\* Variant: the callback sets the location manager up again.
didChangeAuthorizationSetsUp ==
    /\ ~crashed /\ loaded /\ callbackDue
    /\ callbackDue' = FALSE /\ delegateSet' = TRUE
    /\ checkLocationAuthorization
    /\ UNCHANGED <<deviceVars, loaded>>

didChangeAuthorization ==
    /\ ~crashed /\ delegateSet /\ callbackDue
    /\ callbackDue' = FALSE
    /\ checkLocationAuthorization
    /\ UNCHANGED <<deviceVars, loaded, delegateSet>>

\* Variant: the flag is not tested before a place is given to the geocoder.
didUpdateLocationsAlways(p) ==
    /\ ~crashed /\ delegateSet /\ updating /\ services /\ status = "authorized"
    /\ location' = p
    /\ label' = Address(p, placemark, isPerformingReverseGeocoding,
                        lastGeocodingError)
    /\ isPerformingReverseGeocoding' = TRUE
    /\ requests' = Append(requests, p)
    /\ UNCHANGED <<homeVars, deviceVars, loaded, delegateSet, callbackDue,
                   updating, placemark, lastGeocodingError>>

\* The label is set before the geocoding starts.
didUpdateLocations(p) ==
    /\ ~crashed /\ delegateSet /\ updating /\ services /\ status = "authorized"
    /\ location' = p
    /\ label' = Address(p, placemark, isPerformingReverseGeocoding,
                        lastGeocodingError)
    /\ isPerformingReverseGeocoding' = TRUE
    /\ requests' = IF isPerformingReverseGeocoding THEN requests
                   ELSE Append(requests, p)
    /\ UNCHANGED <<homeVars, deviceVars, loaded, delegateSet, callbackDue,
                   updating, placemark, lastGeocodingError>>

\* Variant: the label is left to the next location.
GeocoderAnswerSilent(err, found) ==
    /\ ~crashed /\ requests # << >>
    /\ requests' = Tail(requests)
    /\ lastGeocodingError' = err
    /\ placemark' = IF ~err /\ found THEN Head(requests) ELSE Nowhere
    /\ isPerformingReverseGeocoding' = FALSE
    /\ UNCHANGED <<homeVars, deviceVars, loaded, delegateSet, callbackDue,
                   updating, location, label>>

\* The completion of reverseGeocodeLocation: an error, no placemark, or one.
GeocoderAnswer(err, found) ==
    /\ ~crashed /\ requests # << >>
    /\ requests' = Tail(requests)
    /\ lastGeocodingError' = err
    /\ placemark' = IF ~err /\ found THEN Head(requests) ELSE Nowhere
    /\ isPerformingReverseGeocoding' = FALSE
    /\ UNCHANGED location
    /\ updateAddress
    /\ UNCHANGED <<homeVars, deviceVars, loaded, delegateSet, callbackDue,
                   updating>>

\* The system prompt is answered, or the user visits the system settings.
ChangeSettings ==
    /\ \E on \in BOOLEAN, s \in Statuses \ {"notDetermined"} :
           /\ <<on, s>> # <<services, status>>
           /\ services' = on /\ status' = s
    /\ callbackDue' = (callbackDue \/ loaded)
    /\ UNCHANGED <<homeVars, loaded, delegateSet, updating, geoVars, label>>

RelaunchHome ==
    /\ Relaunch
    /\ loaded' = FALSE /\ delegateSet' = FALSE /\ callbackDue' = FALSE
    /\ updating' = FALSE
    /\ location' = Nowhere /\ placemark' = Nowhere
    /\ lastGeocodingError' = FALSE
    /\ isPerformingReverseGeocoding' = FALSE
    /\ requests' = << >>
    /\ label' = ""
    /\ UNCHANGED deviceVars

AnyGeocoderAnswer == \E err, found \in BOOLEAN : GeocoderAnswer(err, found)

LoadedLocationNext ==
    \/ didChangeAuthorization
    \/ \E p \in Places : didUpdateLocations(p)
    \/ AnyGeocoderAnswer
    \/ ChangeSettings

Next ==
    \/ loaded /\ FeedNext /\ UNCHANGED locVars
    \/ viewDidLoad \/ LoadedLocationNext
    \/ RelaunchHome

Spec == Init /\ [][Next]_vars

\* The geocoder answers every request, with an error if need be.
FairSpec == Spec /\ WF_vars(AnyGeocoderAnswer)

-----------------------------------------------------------------------------
(***************************************************************************)
(* The type invariant.  Its last conjunct: exactly one request is with the *)
(* geocoder while isPerformingReverseGeocoding is set and none otherwise,  *)
(* so that a completion never clears the flag under another request.       *)
(***************************************************************************)
LocationTypeOK ==
    /\ services \in BOOLEAN /\ status \in Statuses
    /\ loaded \in BOOLEAN /\ delegateSet \in BOOLEAN
    /\ callbackDue \in BOOLEAN /\ updating \in BOOLEAN
    /\ location \in Places \cup {Nowhere}
    /\ placemark \in Places \cup {Nowhere}
    /\ lastGeocodingError \in BOOLEAN
    /\ isPerformingReverseGeocoding \in BOOLEAN
    /\ requests \in Seq(Places)
    /\ label \in Messages \cup Places
    /\ Len(requests) = IF isPerformingReverseGeocoding THEN 1 ELSE 0

(***************************************************************************)
(* The label never lags behind the state updateAddress reads, except that  *)
(* it does not know of a search that the same handler started after        *)
(* setting it (HomeVC:284 precedes :288).                                  *)
(***************************************************************************)
LabelIsCurrent ==
    label # "" =>
        \/ label = Address(location, placemark, isPerformingReverseGeocoding,
                           lastGeocodingError)
        \/ /\ isPerformingReverseGeocoding
           /\ label = Address(location, placemark, FALSE, lastGeocodingError)

(***************************************************************************)
(* When location services are off at launch, the label stays empty for the *)
(* life of the process even if they are switched on later: the delegate is *)
(* set nowhere but in the launch-time check.                               *)
(***************************************************************************)
ServicesOffAtLaunchIsFinal ==
    [][loaded /\ ~delegateSet /\ loaded'
           => ~delegateSet' /\ label' = label /\ requests' = << >>]_vars

(***************************************************************************)
(* A search shown to the user ends in an address or a message.             *)
(***************************************************************************)
SearchEnds == label = "searching" ~> (label # "searching" \/ crashed)

=============================================================================
