--------------------------- MODULE DeviceRegistry ---------------------------
(***************************************************************************)
(* The registry of GPS devices: the life of a device, its link to a        *)
(* vehicle, its credentials, and the administrator's page, which shows the *)
(* readiness and edits the identity of the device that is selected while   *)
(* answers about other devices are still on their way.  Each function of   *)
(* the database locks the device first and is one step.                    *)
(***************************************************************************)
EXTENDS Integers, FiniteSets

CONSTANTS Devices, Vehicles, Keys,
          MaxReads  \* bound: selections and reloads of the page

VARIABLES device,      \* status, installation, vehicle_id and code of each device
          link,        \* current primary link of each device: a vehicle or None
          credential,  \* status of each credential of each device
          retired,     \* devices that were retired once
          view         \* the page: selected, shown readiness, identity form, answers on their way

registryVars == <<device, link, credential, retired, view>>

None == "none"
Statuses == {"pending_setup", "active", "offline", "not_working", "suspended", "removed", "retired"}
Live == {"pending", "active", "rotating"}

(* deviceRegistry.ts *)
AllowedTransitions ==
    [pending_setup |-> {"active", "suspended", "removed", "retired"},
     active |-> {"offline", "not_working", "suspended", "removed", "retired"},
     offline |-> {"active", "not_working", "suspended", "removed", "retired"},
     not_working |-> {"active", "suspended", "removed", "retired"},
     suspended |-> {"active", "removed", "retired"},
     removed |-> {"pending_setup", "retired"},
     retired |-> {}]
CanTransition(from, to) == from = to \/ to \in AllowedTransitions[from]

(* What the page asks of an active device on top of the server's answer.   *)
IsProofReady(d, gps, gsm, server) ==
    /\ server /\ device[d].status = "active" /\ device[d].vehicle # None
    /\ \E k \in Keys : credential[d][k] = "active"
    /\ device[d].installation = "installed"
    /\ gps = "ready" /\ gsm \in {"ready", "degraded"}

(* The server's answer; verified says that the active credential has its   *)
(* verification material and has not expired.                              *)
ServerProofReady(d, gps, gsm, verified) ==
    /\ device[d].status = "active" /\ device[d].installation = "installed"
    /\ gps = "ready" /\ gsm \in {"ready", "degraded"}
    /\ link[d] # None
    /\ \E k \in Keys : credential[d][k] = "active" /\ verified

(* The database writes its own list of the transitions. *)
DatabaseTransition(from, to) ==
    \/ from = "pending_setup" /\ to \in {"active", "suspended", "removed", "retired"}
    \/ from = "active" /\ to \in {"offline", "not_working", "suspended", "removed", "retired"}
    \/ from = "offline" /\ to \in {"active", "not_working", "suspended", "removed", "retired"}
    \/ from = "not_working" /\ to \in {"active", "suspended", "removed", "retired"}
    \/ from = "suspended" /\ to \in {"active", "removed", "retired"}
    \/ from = "removed" /\ to \in {"pending_setup", "retired"}

-----------------------------------------------------------------------------
Revoked(d) == [k \in Keys |-> IF credential[d][k] \in Live THEN "revoked" ELSE credential[d][k]]

InstallationAfter(d, status) ==
    CASE status \in {"removed", "retired"} -> "removed"
      [] status = "not_working" -> "not_working"
      [] status = "pending_setup" -> "pending"
      [] OTHER -> device[d].installation

ChangeStatus(d, status) ==
    /\ DatabaseTransition(device[d].status, status)
    /\ status = "active" => device[d].installation = "installed" /\ link[d] # None
    /\ device' = [device EXCEPT ![d].status = status,
                                ![d].installation = InstallationAfter(d, status),
                                ![d].vehicle = IF status \in {"removed", "retired"} THEN None ELSE @]
    /\ link' = IF status \in {"removed", "retired"} THEN [link EXCEPT ![d] = None] ELSE link
    /\ credential' = IF status \in {"suspended", "removed", "retired"}
                     THEN [credential EXCEPT ![d] = Revoked(d)] ELSE credential
    /\ retired' = IF status = "retired" THEN retired \cup {d} ELSE retired
    /\ UNCHANGED view

VehicleIsFree(v) == \A e \in Devices : link[e] # v

LinkVehicle(d, v) ==
    /\ device[d].status \notin {"suspended", "removed", "retired"}
    /\ VehicleIsFree(v)
    /\ link' = [link EXCEPT ![d] = v]
    /\ device' = [device EXCEPT ![d].vehicle = v, ![d].installation = "planned",
                                ![d].status = IF @ = "active" THEN "pending_setup" ELSE @]
    /\ UNCHANGED <<credential, retired, view>>

(* Only the current link is asked for, whatever the status is. *)
RemoveVehicle(d) ==
    /\ link[d] # None
    /\ link' = [link EXCEPT ![d] = None]
    /\ device' = [device EXCEPT ![d].vehicle = None, ![d].status = "removed", ![d].installation = "removed"]
    /\ credential' = [credential EXCEPT ![d] = Revoked(d)]
    /\ UNCHANGED <<retired, view>>

(* The events that do not call ChangeStatus. *)
RecordEvent(d, event) ==
    /\ device[d].status # "retired"
    /\ \/ /\ event = "installation_planned" /\ device[d].status \in {"pending_setup", "offline"}
          /\ device' = [device EXCEPT ![d].installation = "planned"]
          /\ UNCHANGED credential
       \/ /\ event = "installed"
          /\ device[d].status \in {"pending_setup", "offline", "active", "not_working", "suspended"}
          /\ link[d] # None
          /\ device' = [device EXCEPT ![d].installation = "installed"]
          /\ UNCHANGED credential
       \/ /\ event = "lost"
          /\ device[d].status \in {"pending_setup", "active", "offline", "not_working"}
          /\ device' = [device EXCEPT ![d].status = "suspended"]
          /\ credential' = [credential EXCEPT ![d] = Revoked(d)]
       \/ /\ event = "marked_not_working" /\ device[d].status \in {"active", "offline"}
          /\ device' = [device EXCEPT ![d].status = "not_working", ![d].installation = "not_working"]
          /\ UNCHANGED credential
       \/ /\ event = "marked_offline" /\ device[d].status = "active"
          /\ device' = [device EXCEPT ![d].status = "offline"]
          /\ UNCHANGED credential
    /\ UNCHANGED <<link, retired, view>>

CanReplace(new) == device[new].status \notin {"suspended", "not_working", "removed", "retired"}

ReplaceDevice(old, new, v) ==
    /\ old # new /\ CanReplace(new) /\ link[new] = None /\ link[old] = v
    /\ link' = [link EXCEPT ![old] = None, ![new] = v]
    /\ device' = [device EXCEPT
          ![old].status = "removed", ![old].installation = "removed", ![old].vehicle = None,
          ![new].status = "active", ![new].installation = "installed", ![new].vehicle = v]
    /\ credential' = [credential EXCEPT ![old] = Revoked(old)]
    /\ UNCHANGED <<retired, view>>

CredentialSteps == [pending |-> {"pending", "active", "revoked", "expired"},
                    active |-> {"active", "revoked", "expired"},
                    rotating |-> {"revoked", "expired"},
                    revoked |-> {"revoked"}, expired |-> {"expired"},
                    absent |-> {"pending", "active", "revoked", "expired"}]

(* from is None or the credential that this one takes over from.  At most  *)
(* one is active and one is rotating (unique indexes).                     *)
SaveCredential(d, k, status, from) ==
    /\ status \in CredentialSteps[credential[d][k]]
    /\ status = "active" => device[d].status \notin {"suspended", "removed", "retired"}
    /\ from # None => /\ from \in Keys \ {k} /\ status \in {"pending", "active"}
                      /\ credential[d][from] = "active"
    /\ LET new == [x \in Keys |-> IF x = k THEN status ELSE IF x = from THEN "rotating" ELSE credential[d][x]]
       IN /\ \A s \in {"active", "rotating"} : Cardinality({x \in Keys : new[x] = s}) <= 1
          /\ credential' = [credential EXCEPT ![d] = new]
    /\ UNCHANGED <<device, link, retired, view>>

-----------------------------------------------------------------------------
(* The page.  Its readings carry the number of the request. *)

NoReadiness == [device |-> None]

Select(d) ==
    /\ view.selected # d /\ view.reads < MaxReads
    /\ view' = [view EXCEPT !.selected = d, !.shown = NoReadiness, !.reads = @ + 1,
                            !.readings = @ \cup {[device |-> d, number |-> view.reads + 1]},
                            !.details = IF view.editing THEN {d} ELSE {}]
    /\ UNCHANGED <<device, link, credential, retired>>

Reload ==
    /\ view.selected # None /\ view.reads < MaxReads
    /\ view' = [view EXCEPT !.reads = @ + 1,
                            !.readings = @ \cup {[device |-> view.selected, number |-> view.reads + 1]}]
    /\ UNCHANGED <<device, link, credential, retired>>

ShowsReading(r) == r.number = view.reads /\ r.device = view.selected

ReadinessArrives ==
    \E r \in view.readings :
        /\ view' = [view EXCEPT !.readings = @ \ {r},
                                !.shown = IF ShowsReading(r) THEN [device |-> r.device] ELSE @]
        /\ UNCHANGED <<device, link, credential, retired>>

EditDevice ==
    /\ view.selected # None /\ ~ view.editing /\ device[view.selected].status # "retired"
    /\ view' = [view EXCEPT !.editing = TRUE, !.details = {view.selected}]
    /\ UNCHANGED <<device, link, credential, retired>>

(* Only the detail of the device that is selected now fills the form.      *)
DetailArrives ==
    \E d \in view.details :
        /\ view' = [view EXCEPT !.details = {}, !.identity = device[d].code]
        /\ UNCHANGED <<device, link, credential, retired>>

(* The form is saved for the selected device with whatever it holds; no    *)
(* two devices have one code, and a code is fixed once a device is linked. *)
SaveIdentity ==
    /\ view.editing /\ view.selected # None /\ view.identity # None
    /\ LET d == view.selected
           ok == /\ device[d].status # "retired"
                 /\ \A e \in Devices \ {d} : device[e].code # view.identity
       IN /\ device' = IF ok THEN [device EXCEPT ![d].code = view.identity] ELSE device
          /\ view' = [view EXCEPT !.editing = FALSE]
    /\ UNCHANGED <<link, credential, retired>>

RegistryInit ==
    /\ device = [d \in Devices |-> [status |-> "pending_setup", installation |-> "pending", vehicle |-> None, code |-> d]]
    /\ link = [d \in Devices |-> None]
    /\ credential = [d \in Devices |-> [k \in Keys |-> "absent"]]
    /\ retired = {}
    /\ view = [selected |-> None, shown |-> NoReadiness, reads |-> 0, readings |-> {}, details |-> {},
               editing |-> FALSE, identity |-> None]

RegistryNext ==
    \/ \E d \in Devices :
         \/ \E s \in Statuses : ChangeStatus(d, s)
         \/ \E v \in Vehicles : LinkVehicle(d, v) \/ \E e \in Devices : ReplaceDevice(d, e, v)
         \/ RemoveVehicle(d)
         \/ \E event \in {"installation_planned", "installed", "lost", "marked_not_working", "marked_offline"} :
              RecordEvent(d, event)
         \/ \E k \in Keys, s \in Live \cup {"revoked", "expired"}, from \in Keys \cup {None} : SaveCredential(d, k, s, from)

PageNext ==
    \/ \E d \in Devices : Select(d)
    \/ Reload \/ ReadinessArrives \/ EditDevice \/ DetailArrives \/ SaveIdentity

-----------------------------------------------------------------------------
\* An active device is installed in the vehicle that its one current link and
\* its own row name, no vehicle has two, and a suspended, removed or retired
\* device has no credential in use, after any order of links, replacements,
\* events and changes of status.
ActiveMeansInstalled ==
    \A d \in Devices :
        /\ device[d].vehicle = link[d]
        /\ device[d].status = "active" => device[d].installation = "installed" /\ link[d] # None
        /\ device[d].status \in {"removed", "retired"} => link[d] = None
        /\ device[d].status \in {"suspended", "removed", "retired"} =>
               \A k \in Keys : credential[d][k] \notin {"active", "rotating"}
        /\ \A e \in Devices \ {d} : link[d] # None => link[e] # link[d]

\* A retired device stays retired, also in the functions that never ask for it.
RetiredIsForever == \A d \in retired : device[d].status = "retired"

\* The page shows no device the readiness of another, and offers the changes
\* of status that the database allows.
PageIsAboutTheSelected == view.shown.device \in {None, view.selected}
TransitionsAgree ==
    /\ \A from, to \in Statuses : to \in AllowedTransitions[from] <=> DatabaseTransition(from, to)
    /\ \A d \in Devices, gps \in {"ready", "degraded"}, gsm \in {"ready", "degraded", "unknown"}, verified \in BOOLEAN :
           LET server == ServerProofReady(d, gps, gsm, verified)
           IN  server <=> IsProofReady(d, gps, gsm, server)

\* No device gets the identity of another, whichever was selected when the
\* form was filled.
IdentityIsItsOwn == \A d \in Devices : device[d].code = d
=============================================================================
