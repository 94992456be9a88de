------------------------------- MODULE SignIn -------------------------------
(***************************************************************************)
(* How a driver's phone gets a session, and loses it (app/driver_auth, the *)
(* sign-in routes of driver_routes.py, the driver pages of admin_routes).  *)
(* A sign-in claims its one-use code, then takes the driver's row for      *)
(* share, then commits; switching a driver off and issuing a code take the *)
(* row for update and then retire the open codes.  The two orders meet, so *)
(* Postgres may have to break a deadlock.  One driver is modelled.         *)
(***************************************************************************)
EXTENDS Naturals, Sequences, FiniteSets

CONSTANTS
  Devices,      \* phones
  MAX_CODES,    \* bound on the codes issued
  MAX_SWITCHES, \* bound on the times the driver is switched off
  MAX_FAILED,   \* MAX_FAILED_ATTEMPTS_PER_IP
  NoCode        \* no code

VARIABLES
  active,     \* driver.is_active
  switched,   \* how often the driver was switched off (history)
  codes,      \* the codes issued, oldest first
  device,     \* driver_devices
  signing,    \* the sign-in each phone has under way
  admin,      \* the administrator's transaction on the driver's row
  doomed,     \* phones a switch-off under way has revoked, uncommitted
  attempts    \* failed attempts of the address in this window

vars == <<active, switched, codes, device, signing, admin, doomed, attempts>>

Code == [state : {"open", "redeemed", "superseded", "expired"}, era : Nat]
Device == [known : BOOLEAN, revoked : BOOLEAN, code : Nat \cup {NoCode}]
Signing == [at : {"idle", "claimed", "cleared"}, code : Nat \cup {NoCode}, revoked : BOOLEAN]
Idle == [at |-> "idle", code |-> NoCode, revoked |-> FALSE]

TypeOK ==
  /\ active \in BOOLEAN /\ switched \in Nat
  /\ DOMAIN codes = 1..Len(codes) /\ \A c \in DOMAIN codes : codes[c] \in Code
  /\ device \in [Devices -> Device] /\ signing \in [Devices -> Signing]
  /\ admin \in {"idle", "off", "retiring", "issue"} /\ doomed \subseteq Devices /\ attempts \in 0..(MAX_FAILED + 1)

\* onboard_driver: the driver and a first code.
Init ==
  /\ active = TRUE /\ switched = 0
  /\ codes = <<[state |-> "open", era |-> 0]>>
  /\ device = [d \in Devices |-> [known |-> FALSE, revoked |-> FALSE, code |-> NoCode]]
  /\ signing = [d \in Devices |-> Idle]
  /\ admin = "idle" /\ doomed = {} /\ attempts = 0

\* charge_attempt: counted before the code is looked at, given back on success.
Charged == /\ attempts <= MAX_FAILED
           /\ attempts' = attempts + 1
Refund == attempts' = IF attempts = 0 THEN 0 ELSE attempts - 1

\* A wrong code, or an address that has had its attempts.
WrongCode(d) ==
  /\ signing[d].at = "idle"
  /\ Charged
  /\ UNCHANGED <<active, switched, codes, device, signing, admin, doomed>>

Held == {signing[d].code : d \in Devices} \ {NoCode}

\* redeem_code: one conditional UPDATE; while another transaction holds the
\* row it waits, and then looks again.
Claim(d, c) ==
  /\ signing[d].at = "idle" /\ attempts < MAX_FAILED /\ Charged
  /\ codes[c].state = "open" /\ c \notin Held
  /\ signing' = [signing EXCEPT ![d] = [Idle EXCEPT !.at = "claimed", !.code = c]]
  /\ UNCHANGED <<active, switched, codes, device, admin, doomed>>

\* mutant: the driver's row is read without a lock
DriverRowFree_Unlocked == TRUE

\* FOR SHARE waits for an administrator's FOR UPDATE.
DriverRowFree == admin = "idle"

\* The driver's row, held until the commit; a driver switched off is refused
\* and the code stays open.  The device's row is read without a lock.
Clear(d) ==
  /\ signing[d].at = "claimed" /\ DriverRowFree
  /\ signing' = IF active
       THEN [signing EXCEPT ![d].at = "cleared", ![d].revoked = device[d].revoked]
       ELSE [signing EXCEPT ![d] = Idle]
  /\ UNCHANGED <<active, switched, codes, device, admin, doomed, attempts>>

\* The commit: the code is spent, the device known, and its revocation taken
\* back when the sign-in had read one.  The token is issued after it.
SignedIn(d) ==
  /\ signing[d].at = "cleared"
  /\ codes' = [codes EXCEPT ![signing[d].code].state = "redeemed"]
  /\ device' = [device EXCEPT ![d] =
       [known |-> TRUE, code |-> signing[d].code,
        revoked |-> @.revoked /\ ~signing[d].revoked]]
  /\ signing' = [signing EXCEPT ![d] = Idle]
  /\ Refund
  /\ UNCHANGED <<active, switched, admin, doomed>>

\* revoke_my_device from another of the driver's phones, and
\* admin_revoke_driver_device from ops.
Live(d) == active /\ device[d].known /\ ~device[d].revoked
Revoke(d) ==
  /\ device[d].known /\ ~device[d].revoked
  /\ device' = [device EXCEPT ![d].revoked = TRUE]
  /\ UNCHANGED <<active, switched, codes, signing, admin, doomed, attempts>>

\* The administrator takes the row for update: no sign-in holds it for share.
\* An issue is refused for a driver who is switched off; a second switch-off
\* changes nothing.  (Open work, which refuses a switch-off, is FleetState's.)
TakeRow(what) ==
  /\ admin = "idle" /\ active
  /\ \A d \in Devices : signing[d].at # "cleared"
  /\ what = "issue" => Len(codes) < MAX_CODES
  /\ admin' = what
  /\ UNCHANGED <<active, switched, codes, device, signing, attempts, doomed>>

\* retire_open_codes
Retired == [c \in DOMAIN codes |-> IF codes[c].state \in {"open", "expired"}
              THEN [codes[c] EXCEPT !.state = "superseded"] ELSE codes[c]]

\* The retirement waits for a sign-in that holds one of the codes.
CodesFree == Held = {}

\* A switch-off revokes the phones it finds, then retires the codes and
\* commits.
RevokeAll ==
  /\ admin = "off"
  /\ admin' = "retiring" /\ doomed' = {d \in Devices : device[d].known}
  /\ UNCHANGED <<active, switched, codes, device, signing, attempts>>

SwitchOff ==
  /\ admin = "retiring" /\ CodesFree
  /\ active' = FALSE /\ switched' = switched + 1
  /\ device' = [d \in Devices |-> IF d \in doomed THEN [device[d] EXCEPT !.revoked = TRUE]
                                                  ELSE device[d]]
  /\ codes' = Retired
  /\ admin' = "idle" /\ doomed' = {}
  /\ UNCHANGED <<signing, attempts>>

IssueCode ==
  /\ admin = "issue" /\ CodesFree
  /\ codes' = Append(Retired, [state |-> "open", era |-> switched])
  /\ admin' = "idle"
  /\ UNCHANGED <<active, switched, device, signing, attempts, doomed>>

\* The sign-in holds a code and waits for the driver; the administrator holds
\* the driver and waits for the codes.  Postgres ends one of the two.
Deadlocked(d) == signing[d].at = "claimed" /\ admin # "idle"
BreakDeadlock(d) ==
  /\ Deadlocked(d)
  /\ \/ signing' = [signing EXCEPT ![d] = Idle] /\ UNCHANGED admin
     \/ admin' = "idle" /\ UNCHANGED signing
  /\ doomed' = IF admin' = "idle" THEN {} ELSE doomed
  /\ UNCHANGED <<active, switched, codes, device, attempts>>

\* admin_reactivate_driver; phones and codes stay as they were.
SwitchOn ==
  /\ ~active /\ switched < MAX_SWITCHES
  /\ active' = TRUE
  /\ UNCHANGED <<switched, codes, device, signing, admin, doomed, attempts>>

\* CODE_TTL passes; the window of the attempts ends.
Expires(c) ==
  /\ codes[c].state = "open" /\ c \notin Held
  /\ codes' = [codes EXCEPT ![c].state = "expired"]
  /\ UNCHANGED <<active, switched, device, signing, admin, doomed, attempts>>

WindowEnds ==
  /\ attempts > 0 /\ attempts' = 0
  /\ UNCHANGED <<active, switched, codes, device, signing, admin, doomed>>

Next ==
  \/ \E d \in Devices : WrongCode(d) \/ Clear(d) \/ SignedIn(d) \/ Revoke(d) \/ BreakDeadlock(d)
  \/ \E d \in Devices, c \in DOMAIN codes : Claim(d, c)
  \/ \E what \in {"off", "issue"} : TakeRow(what)
  \/ RevokeAll \/ SwitchOff \/ IssueCode \/ SwitchOn \/ WindowEnds
  \/ \E c \in DOMAIN codes : Expires(c)

Spec == Init /\ [][Next]_vars

-----------------------------------------------------------------------------
\* A switch-off ends every session for good: a phone with a live session
\* signed in with a code that was issued after the driver was last switched
\* off, even when the driver has been switched on again since, and no two
\* phones ever signed in with the same code.
SwitchOffIsFinal ==
  /\ \A d \in Devices : Live(d) => codes[device[d].code].era = switched
  /\ \A d, e \in Devices : d # e /\ device[d].known /\ device[e].known =>
       device[d].code # device[e].code
=============================================================================
