---------------------------- MODULE SignIn_proofs ----------------------------
(***************************************************************************)
(* Signing in, for any number of phones, codes and switch-offs: a code is  *)
(* good for one phone, and a switch-off ends every session for good.       *)
(***************************************************************************)
EXTENDS SignIn, TLAPS

\* The codes are counted from 1, and "no code" is none of them.
WellNamed == MAX_FAILED \in Nat /\ NoCode \notin Nat \ {0}

Types ==
  /\ active \in BOOLEAN /\ switched \in Nat /\ codes \in Seq(Code)
  /\ device \in [Devices -> Device] /\ signing \in [Devices -> Signing]
  /\ admin \in {"idle", "off", "retiring", "issue"} /\ doomed \subseteq Devices
  /\ attempts \in 0..(MAX_FAILED + 1)

(* The row lock of redeem_code: a sign-in under way holds an open code, and *)
(* no other phone's sign-in holds the same one.                             *)
OneHolder ==
  /\ \A d \in Devices :
       /\ signing[d].at = "idle" => signing[d].code = NoCode
       /\ signing[d].at # "idle" =>
            signing[d].code \in DOMAIN codes /\ codes[signing[d].code].state = "open"
  /\ \A d, e \in Devices :
       d # e /\ signing[d].at # "idle" /\ signing[e].at # "idle" =>
         signing[d].code # signing[e].code

\* A phone that signed in spent its code, and nobody else's.
OwnCode ==
  /\ \A d \in Devices : device[d].known =>
       device[d].code \in DOMAIN codes /\ codes[device[d].code].state = "redeemed"
  /\ \A d, e \in Devices : d # e /\ device[d].known /\ device[e].known =>
       device[d].code # device[e].code

(* A code that can still be used was issued since the last switch-off, and  *)
(* so was the code of a phone that is not revoked, switched on or not.      *)
OfThisEra ==
  /\ \A c \in DOMAIN codes : codes[c].state = "open" => codes[c].era = switched
  /\ \A d \in Devices : device[d].known /\ ~device[d].revoked =>
       codes[device[d].code].era = switched

(* The lock on the driver's row: an administrator who has it meets no       *)
(* sign-in past its check of the driver, so the phones a switch-off finds   *)
(* are all there will be when it commits.                                   *)
RowIsHeld ==
  /\ admin # "idle" => \A d \in Devices : signing[d].at # "cleared"
  /\ admin = "retiring" => \A d \in Devices : device[d].known => d \in doomed

SignInInv == Types /\ OneHolder /\ OwnCode /\ OfThisEra /\ RowIsHeld

-----------------------------------------------------------------------------
LEMMA InitHolds == ASSUME WellNamed PROVE Init => SignInInv
  <1> SUFFICES ASSUME Init PROVE SignInInv
    OBVIOUS
  <1>1. codes \in Seq(Code) /\ DOMAIN codes = {1} /\ codes[1].state = "open" /\ codes[1].era = 0
    BY DEF Init, Code
  <1>2. \A d \in Devices : /\ signing[d] = Idle /\ device[d].known = FALSE
    BY DEF Init
  <1>3. Types
    BY <1>1 DEF WellNamed, Init, Types, Device, Signing, Idle
  <1>4. OneHolder /\ OwnCode /\ OfThisEra /\ RowIsHeld
    BY <1>1, <1>2 DEF Init, OneHolder, OwnCode, OfThisEra, RowIsHeld, Idle
  <1> QED
    BY <1>3, <1>4 DEF SignInInv

\* Steps that count attempts, or switch the driver on.
LEMMA SmallSteps ==
  ASSUME WellNamed, SignInInv,
         \/ \E d \in Devices : WrongCode(d)
         \/ WindowEnds
         \/ SwitchOn
         \/ UNCHANGED vars
  PROVE  SignInInv'
  <1>1. UNCHANGED <<switched, codes, device, signing, admin, doomed>>
    BY DEF WrongCode, WindowEnds, SwitchOn, vars
  <1>2. active' \in BOOLEAN
    BY Zenon DEF WrongCode, WindowEnds, SwitchOn, vars, SignInInv, Types
  <1>3. attempts' \in 0..(MAX_FAILED + 1)
    BY DEF WrongCode, Charged, WindowEnds, SwitchOn, vars, SignInInv, Types, WellNamed
  <1> QED
    BY <1>1, <1>2, <1>3 DEF SignInInv, Types, OneHolder, OwnCode, OfThisEra, RowIsHeld

\* The conditional UPDATE of one code's state.
LEMMA CodeMoves ==
  ASSUME Types, NEW c \in DOMAIN codes, NEW s \in {"open", "redeemed", "superseded", "expired"},
         codes' = [codes EXCEPT ![c].state = s]
  PROVE  /\ codes' \in Seq(Code) /\ DOMAIN codes' = DOMAIN codes
         /\ codes'[c].state = s /\ codes'[c].era = codes[c].era
         /\ \A k \in DOMAIN codes : k # c => codes'[k] = codes[k]
  <1>1. DOMAIN codes = 1..Len(codes) /\ Len(codes) \in Nat /\ codes \in [1..Len(codes) -> Code]
    BY DEF Types
  <1>2. codes[c] \in Code
    BY <1>1
  <1>3. /\ [codes[c] EXCEPT !.state = s] \in Code
        /\ [codes[c] EXCEPT !.state = s].state = s
        /\ [codes[c] EXCEPT !.state = s].era = codes[c].era
    BY <1>2 DEF Code
  <1>4. codes' = [codes EXCEPT ![c] = [codes[c] EXCEPT !.state = s]]
    OBVIOUS
  <1>5. /\ codes'[c] = [codes[c] EXCEPT !.state = s]
        /\ \A k \in DOMAIN codes : k # c => codes'[k] = codes[k]
    BY <1>1, <1>4
  <1>6. codes' \in [1..Len(codes) -> Code]
    BY <1>1, <1>3, <1>4
  <1> QED
    BY <1>1, <1>3, <1>5, <1>6

LEMMA RevokeKeeps == ASSUME SignInInv, NEW d \in Devices, Revoke(d) PROVE SignInInv'
  <1>1. /\ device' = [device EXCEPT ![d].revoked = TRUE]
        /\ UNCHANGED <<active, switched, codes, signing, admin, doomed, attempts>>
    BY DEF Revoke
  <1>2. /\ device' \in [Devices -> Device]
        /\ \A e \in Devices : /\ device'[e].known = device[e].known
                              /\ device'[e].code = device[e].code
                              /\ device[e].revoked => device'[e].revoked
    BY <1>1 DEF SignInInv, Types, Device
  <1> QED
    BY <1>1, <1>2 DEF SignInInv, Types, OneHolder, OwnCode, OfThisEra, RowIsHeld

\* A code nobody holds is taken by one phone.
LEMMA ClaimKeeps ==
  ASSUME WellNamed, SignInInv, NEW d \in Devices, NEW c \in DOMAIN codes, Claim(d, c)
  PROVE  SignInInv'
  <1>1. /\ signing[d].at = "idle" /\ codes[c].state = "open" /\ c \notin Held
        /\ signing' = [signing EXCEPT ![d] = [Idle EXCEPT !.at = "claimed", !.code = c]]
        /\ UNCHANGED <<active, switched, codes, device, admin, doomed>>
        /\ attempts' \in 0..(MAX_FAILED + 1)
    BY DEF Claim, Charged, SignInInv, Types, WellNamed
  <1>2. c \in Nat /\ c # NoCode
    BY DEF SignInInv, Types, WellNamed
  <1>3. /\ signing' \in [Devices -> Signing] /\ signing'[d].at = "claimed" /\ signing'[d].code = c
        /\ \A e \in Devices : e # d => signing'[e] = signing[e]
    BY <1>1, <1>2 DEF SignInInv, Types, Signing, Idle
  <1>4. \A e \in Devices : signing[e].code # c
    BY <1>1, <1>2 DEF Held
  <1>5. OneHolder'
    BY <1>1, <1>3, <1>4 DEF SignInInv, OneHolder
  <1>6. Types' /\ OwnCode' /\ OfThisEra' /\ RowIsHeld'
    BY <1>1, <1>3 DEF SignInInv, Types, OwnCode, OfThisEra, RowIsHeld
  <1> QED
    BY <1>5, <1>6 DEF SignInInv

LEMMA ClearKeeps == ASSUME WellNamed, SignInInv, NEW d \in Devices, Clear(d) PROVE SignInInv'
  <1>1. /\ signing[d].at = "claimed" /\ admin = "idle"
        /\ UNCHANGED <<active, switched, codes, device, admin, doomed, attempts>>
    BY DEF Clear, DriverRowFree
  <1>2. /\ signing' \in [Devices -> Signing]
        /\ \A e \in Devices : e # d => signing'[e] = signing[e]
        /\ \/ signing'[d].at = "cleared" /\ signing'[d].code = signing[d].code
           \/ signing'[d].at = "idle" /\ signing'[d].code = NoCode
    <2>1. signing \in [Devices -> Signing] /\ signing[d] \in Signing /\ device[d].revoked \in BOOLEAN
      BY DEF SignInInv, Types, Device
    <2>2. CASE active
      <3>1. signing' = [signing EXCEPT ![d] = [signing[d] EXCEPT !.at = "cleared",
                                                                 !.revoked = device[d].revoked]]
        BY <2>1, <2>2 DEF Clear, Signing
      <3>2. [signing[d] EXCEPT !.at = "cleared", !.revoked = device[d].revoked] \in Signing
        BY <2>1 DEF Signing
      <3> QED
        BY <2>1, <3>1, <3>2 DEF Signing
    <2>3. CASE ~active
      BY <2>1, <2>3 DEF Clear, Signing, Idle
    <2> QED
      BY <2>2, <2>3
  <1>3. OneHolder'
    BY <1>1, <1>2 DEF SignInInv, OneHolder
  <1>4. Types' /\ OwnCode' /\ OfThisEra' /\ RowIsHeld'
    BY <1>1, <1>2 DEF SignInInv, Types, OwnCode, OfThisEra, RowIsHeld
  <1> QED
    BY <1>3, <1>4 DEF SignInInv

LEMMA SignedInKeeps == ASSUME WellNamed, SignInInv, NEW d \in Devices, SignedIn(d) PROVE SignInInv'
  <1> DEFINE c == signing[d].code
  <1>1. /\ signing[d].at = "cleared" /\ UNCHANGED <<active, switched, admin, doomed>>
        /\ codes' = [codes EXCEPT ![c].state = "redeemed"]
        /\ signing' = [signing EXCEPT ![d] = Idle]
        /\ attempts' \in 0..(MAX_FAILED + 1)
    BY DEF SignedIn, Refund, SignInInv, Types, WellNamed
  <1>2. c \in DOMAIN codes /\ codes[c].state = "open" /\ admin = "idle" /\ codes[c].era = switched
    BY <1>1 DEF SignInInv, OneHolder, RowIsHeld, OfThisEra
  <1>3. /\ codes' \in Seq(Code) /\ DOMAIN codes' = DOMAIN codes /\ codes'[c].state = "redeemed"
        /\ codes'[c].era = codes[c].era
        /\ \A k \in DOMAIN codes : k # c => codes'[k] = codes[k]
    BY <1>1, <1>2, CodeMoves DEF SignInInv
  <1>4. /\ signing' \in [Devices -> Signing] /\ signing'[d].at = "idle" /\ signing'[d].code = NoCode
        /\ \A e \in Devices : e # d => signing'[e] = signing[e]
    BY <1>1 DEF SignInInv, Types, Signing, Idle
  <1>5. /\ device' \in [Devices -> Device] /\ device'[d].known /\ device'[d].code = c
        /\ \A e \in Devices : e # d => device'[e] = device[e]
    <2>1. c \in Nat
      BY <1>2 DEF SignInInv, Types
    <2> QED
      BY <2>1 DEF SignedIn, SignInInv, Types, Device
  <1> HIDE DEF c
  <1>6. \A e \in Devices : e # d /\ signing[e].at # "idle" => signing[e].code # c
    BY <1>1 DEF SignInInv, OneHolder, c
  <1>7. \A e \in Devices : device[e].known => device[e].code # c
    BY <1>2 DEF SignInInv, OwnCode
  <1>8. OneHolder'
    BY <1>3, <1>4, <1>6 DEF SignInInv, OneHolder
  <1>9. OwnCode'
    BY <1>2, <1>3, <1>5, <1>7 DEF SignInInv, OwnCode
  <1>10. OfThisEra'
    BY <1>1, <1>2, <1>3, <1>5, <1>7 DEF SignInInv, OwnCode, OfThisEra
  <1>11. Types' /\ RowIsHeld'
    BY <1>1, <1>2, <1>3, <1>4, <1>5 DEF SignInInv, Types, RowIsHeld
  <1> QED
    BY <1>8, <1>9, <1>10, <1>11 DEF SignInInv

LEMMA RowSteps ==
  ASSUME SignInInv,
         \/ \E what \in {"off", "issue"} : TakeRow(what)
         \/ RevokeAll
  PROVE  SignInInv'
  <1>1. UNCHANGED <<active, switched, codes, device, signing, attempts>>
    BY DEF TakeRow, RevokeAll
  <1>2. /\ admin' \in {"idle", "off", "retiring", "issue"} /\ doomed' \subseteq Devices
        /\ RowIsHeld'
    BY DEF TakeRow, RevokeAll, SignInInv, Types, RowIsHeld
  <1> QED
    BY <1>1, <1>2 DEF SignInInv, Types, OneHolder, OwnCode, OfThisEra

LEMMA BreakDeadlockKeeps ==
  ASSUME SignInInv, NEW d \in Devices, BreakDeadlock(d) PROVE SignInInv'
  <1>1. /\ UNCHANGED <<active, switched, codes, device, attempts>>
        /\ doomed' = IF admin' = "idle" THEN {} ELSE doomed
        /\ \/ signing' = [signing EXCEPT ![d] = Idle] /\ UNCHANGED admin
           \/ admin' = "idle" /\ UNCHANGED signing
    BY DEF BreakDeadlock
  <1>2. /\ signing' \in [Devices -> Signing]
        /\ \A e \in Devices : \/ signing'[e] = signing[e]
                              \/ signing'[e].at = "idle" /\ signing'[e].code = NoCode
    <2>1. signing \in [Devices -> Signing]
      BY DEF SignInInv, Types
    <2>2. Idle \in Signing /\ Idle.at = "idle" /\ Idle.code = NoCode
      BY DEF Idle, Signing
    <2>3. CASE signing' = [signing EXCEPT ![d] = Idle]
      BY <2>1, <2>2, <2>3
    <2>4. CASE UNCHANGED signing
      BY <2>1, <2>4
    <2> QED
      BY <1>1, <2>3, <2>4
  <1>3. OneHolder'
    BY <1>1, <1>2 DEF SignInInv, OneHolder
  <1>4. Types' /\ RowIsHeld'
    BY <1>1, <1>2 DEF SignInInv, Types, RowIsHeld
  <1>5. OwnCode' /\ OfThisEra'
    BY <1>1 DEF SignInInv, OwnCode, OfThisEra
  <1> QED
    BY <1>3, <1>4, <1>5 DEF SignInInv

\* Retiring the open codes leaves the spent ones as they were.
LEMMA RetiredCodes ==
  ASSUME Types
  PROVE  /\ Retired \in Seq(Code) /\ DOMAIN Retired = DOMAIN codes /\ Len(Retired) = Len(codes)
         /\ \A c \in DOMAIN codes : /\ Retired[c].state # "open" /\ Retired[c].era = codes[c].era
                                    /\ codes[c].state = "redeemed" => Retired[c] = codes[c]
  <1>1. \A c \in DOMAIN codes : codes[c] \in Code
    BY DEF Types
  <1>2. DOMAIN Retired = DOMAIN codes /\ DOMAIN codes = 1..Len(codes) /\ Len(codes) \in Nat
    BY DEF Types, Retired
  <1>3. \A c \in DOMAIN codes : /\ Retired[c] \in Code
                                /\ Retired[c].state # "open" /\ Retired[c].era = codes[c].era
                                /\ codes[c].state = "redeemed" => Retired[c] = codes[c]
    BY <1>1 DEF Retired, Code
  <1>4. Retired \in [1..Len(codes) -> Code]
    BY <1>2, <1>3 DEF Retired
  <1>5. Retired \in Seq(Code) /\ Len(Retired) = Len(codes)
    BY <1>2, <1>4
  <1> QED
    BY <1>2, <1>3, <1>5

LEMMA CodesFreeIsIdle ==
  ASSUME WellNamed, SignInInv, CodesFree PROVE \A d \in Devices : signing[d].at = "idle"
  <1> SUFFICES ASSUME NEW d \in Devices, signing[d].at # "idle" PROVE FALSE
    OBVIOUS
  <1>1. signing[d].code \in DOMAIN codes
    BY DEF SignInInv, OneHolder
  <1>2. signing[d].code # NoCode
    BY <1>1 DEF SignInInv, Types, WellNamed
  <1> QED
    BY <1>2 DEF CodesFree, Held

LEMMA SwitchOffKeeps == ASSUME WellNamed, SignInInv, SwitchOff PROVE SignInInv'
  <1>1. /\ admin = "retiring" /\ CodesFree /\ active' = FALSE /\ switched' = switched + 1
        /\ codes' = Retired /\ admin' = "idle" /\ doomed' = {} /\ UNCHANGED <<signing, attempts>>
    BY DEF SwitchOff
  <1>2. /\ device' \in [Devices -> Device]
        /\ \A d \in Devices : /\ device'[d].known = device[d].known
                              /\ device'[d].code = device[d].code
                              /\ device[d].known => device'[d].revoked
    BY <1>1 DEF SwitchOff, SignInInv, Types, Device, RowIsHeld
  <1>3. \A d \in Devices : signing[d].at = "idle"
    BY <1>1, CodesFreeIsIdle
  <1>4. /\ codes' \in Seq(Code) /\ DOMAIN codes' = DOMAIN codes
        /\ \A c \in DOMAIN codes : /\ codes'[c].state # "open"
                                   /\ codes[c].state = "redeemed" => codes'[c] = codes[c]
    BY <1>1, RetiredCodes DEF SignInInv
  <1>5. Types' /\ RowIsHeld'
    <2>1. active' \in BOOLEAN
      BY <1>1, Zenon
    <2> QED
      BY <1>1, <1>2, <1>4, <2>1 DEF SignInInv, Types, RowIsHeld
  <1>6. OneHolder'
    BY <1>1, <1>3 DEF SignInInv, OneHolder
  <1>7. OwnCode'
    BY <1>2, <1>4 DEF SignInInv, OwnCode
  <1>8. OfThisEra'
    BY <1>2, <1>4 DEF OfThisEra
  <1> QED
    BY <1>5, <1>6, <1>7, <1>8 DEF SignInInv

LEMMA IssueCodeKeeps == ASSUME WellNamed, SignInInv, IssueCode PROVE SignInInv'
  <1> DEFINE fresh == [state |-> "open", era |-> switched]
  <1>1. /\ admin = "issue" /\ CodesFree /\ codes' = Append(Retired, fresh) /\ admin' = "idle"
        /\ UNCHANGED <<active, switched, device, signing, attempts, doomed>>
    BY DEF IssueCode
  <1>2. fresh \in Code /\ fresh.era = switched
    BY DEF SignInInv, Types, Code
  <1> HIDE DEF fresh
  <1>3. \A d \in Devices : signing[d].at = "idle"
    BY <1>1, CodesFreeIsIdle
  <1>4. /\ Retired \in Seq(Code) /\ DOMAIN Retired = DOMAIN codes /\ Len(Retired) = Len(codes)
        /\ \A c \in DOMAIN codes : /\ Retired[c].state # "open" /\ Retired[c].era = codes[c].era
                                   /\ codes[c].state = "redeemed" => Retired[c] = codes[c]
    BY RetiredCodes DEF SignInInv
  <1>5. /\ codes' \in Seq(Code) /\ DOMAIN codes' = DOMAIN codes \cup {Len(codes) + 1}
        /\ codes'[Len(codes) + 1] = fresh
        /\ \A c \in DOMAIN codes : codes'[c] = Retired[c]
    BY <1>1, <1>2, <1>4 DEF SignInInv, Types
  <1>6. Types' /\ RowIsHeld'
    BY <1>1, <1>5 DEF SignInInv, Types, RowIsHeld
  <1>7. OneHolder'
    BY <1>1, <1>3 DEF SignInInv, OneHolder
  <1>8. OwnCode'
    BY <1>1, <1>4, <1>5 DEF SignInInv, OwnCode
  <1>9. OfThisEra'
    BY <1>1, <1>2, <1>4, <1>5 DEF SignInInv, OwnCode, OfThisEra
  <1> QED
    BY <1>6, <1>7, <1>8, <1>9 DEF SignInInv

LEMMA ExpiresKeeps == ASSUME WellNamed, SignInInv, NEW c \in DOMAIN codes, Expires(c) PROVE SignInInv'
  <1>1. /\ codes[c].state = "open" /\ c \notin Held
        /\ codes' = [codes EXCEPT ![c].state = "expired"]
        /\ UNCHANGED <<active, switched, device, signing, admin, doomed, attempts>>
    BY DEF Expires
  <1>2. /\ codes' \in Seq(Code) /\ DOMAIN codes' = DOMAIN codes /\ codes'[c].state = "expired"
        /\ \A k \in DOMAIN codes : k # c => codes'[k] = codes[k]
    BY <1>1, CodeMoves DEF SignInInv
  <1>3. OneHolder'
    <2>1. c # NoCode
      BY DEF SignInInv, Types, WellNamed
    <2>2. \A d \in Devices : signing[d].code # c
      BY <1>1, <2>1 DEF Held
    <2> QED
      BY <1>1, <1>2, <2>2 DEF SignInInv, OneHolder
  <1>4. Types' /\ RowIsHeld'
    BY <1>1, <1>2 DEF SignInInv, Types, RowIsHeld
  <1>5. OwnCode' /\ OfThisEra'
    BY <1>1, <1>2 DEF SignInInv, OwnCode, OfThisEra
  <1> QED
    BY <1>3, <1>4, <1>5 DEF SignInInv

LEMMA SignInInvariance == ASSUME WellNamed PROVE Spec => []SignInInv
  <1>1. Init => SignInInv
    BY InitHolds
  <1>2. SignInInv /\ [Next]_vars => SignInInv'
    <2> SUFFICES ASSUME SignInInv, [Next]_vars PROVE SignInInv'
      OBVIOUS
    <2>1. ASSUME NEW d \in Devices,
                 WrongCode(d) \/ Clear(d) \/ SignedIn(d) \/ Revoke(d) \/ BreakDeadlock(d)
          PROVE  SignInInv'
      BY <2>1, SmallSteps, ClearKeeps, SignedInKeeps, RevokeKeeps, BreakDeadlockKeeps
    <2>2. ASSUME NEW d \in Devices, NEW c \in DOMAIN codes, Claim(d, c) PROVE SignInInv'
      BY <2>2, ClaimKeeps
    <2>3. CASE (\E what \in {"off", "issue"} : TakeRow(what)) \/ RevokeAll
      BY <2>3, RowSteps
    <2>4. CASE SwitchOff \/ IssueCode
      BY <2>4, SwitchOffKeeps, IssueCodeKeeps
    <2>5. CASE SwitchOn \/ WindowEnds \/ UNCHANGED vars
      BY <2>5, SmallSteps
    <2>6. ASSUME NEW c \in DOMAIN codes, Expires(c) PROVE SignInInv'
      BY <2>6, ExpiresKeeps
    <2> QED
      BY <2>1, <2>2, <2>3, <2>4, <2>5, <2>6 DEF Next
  <1> QED
    BY <1>1, <1>2, PTL DEF Spec

-----------------------------------------------------------------------------
\* The types of the sign-in's state, whatever deadlocks Postgres breaks.
THEOREM TypeCorrect == ASSUME WellNamed PROVE Spec => []TypeOK
  <1>1. SignInInv => TypeOK
    BY DEF SignInInv, Types, TypeOK
  <1> QED
    BY <1>1, SignInInvariance, PTL

(* However sign-ins, revocations, issues, deadlocks and switch-offs         *)
(* interleave: a phone with a live session signed in with a code issued     *)
(* since the driver was last switched off, and no two phones signed in with *)
(* one code (redeem_code, admin_deactivate_driver).                         *)
THEOREM SwitchedOffForGood == ASSUME WellNamed PROVE Spec => []SwitchOffIsFinal
  <1>1. SignInInv => SwitchOffIsFinal
    BY DEF SignInInv, OwnCode, OfThisEra, SwitchOffIsFinal, Live
  <1> QED
    BY <1>1, SignInInvariance, PTL

=============================================================================
