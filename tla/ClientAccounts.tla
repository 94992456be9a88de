--------------------------- MODULE ClientAccounts ---------------------------
(***************************************************************************)
(* A client's account from application to order: sign-up, the decision of  *)
(* two administrators who may both have the application open, the users    *)
(* the client manages itself, password links, API keys, the terms and      *)
(* their new versions, and the sweep that erases declined applications     *)
(* (public_routes, client_routes, admin_routes, client_auth, client_api,   *)
(* legal).  Reads and writes of one request are separate steps: none of    *)
(* these routes locks a row.                                               *)
(***************************************************************************)
EXTENDS Naturals, FiniteSets

CONSTANTS
  Users,         \* people of the client; one of them applied
  Applicant,     \* that one
  Reviewers,     \* administrators with the application open
  MAX_VERSION    \* bound on the versions of the terms

VARIABLES
  account,    \* the clients row
  user,       \* client_users
  review,     \* what each administrator has read and not yet written
  edit,       \* the change each user is making to another
  link,       \* users with an unused password link
  key,        \* the client's API key
  terms,      \* the version in force, and whether it is published
  ordered,    \* versions accepted when the client's orders were taken
  unpriced    \* whether an order was taken with no rate for its tier

vars == <<account, user, review, edit, link, key, terms, ordered, unpriced>>

Status == {"none", "pending", "active", "rejected", "erased"}
Rates == {"none", "some", "all"}    \* tiers with a rate
Account == [status : Status, rates : Rates, accepted : 0..MAX_VERSION, ripe : BOOLEAN,
            applied : BOOLEAN]
User == [role : {"none", "admin", "member"}, active : BOOLEAN]
NoEdit == [of |-> Applicant, role |-> "none", active |-> FALSE]

TypeOK ==
  /\ account \in Account /\ user \in [Users -> User]
  /\ review \in [Reviewers -> {"idle", "approve", "reject"}]
  /\ edit \in [Users -> [of : Users, role : {"none", "admin", "member"}, active : BOOLEAN]]
  /\ link \subseteq Users /\ key \in {"none", "live", "revoked"}
  /\ terms \in [version : 1..MAX_VERSION, published : BOOLEAN]
  /\ ordered \subseteq 0..MAX_VERSION /\ unpriced \in BOOLEAN

Init ==
  /\ account = [status |-> "none", rates |-> "none", accepted |-> 0, ripe |-> FALSE,
               applied |-> FALSE]
  /\ user = [u \in Users |-> [role |-> "none", active |-> FALSE]]
  /\ review = [o \in Reviewers |-> "idle"] /\ edit = [u \in Users |-> NoEdit]
  /\ link = {} /\ key = "none"
  /\ terms \in [version : {1}, published : BOOLEAN]
  /\ ordered = {} /\ unpriced = FALSE

\* client_signup: refused while there is nothing to agree to; the version is
\* the server's, the first user cannot sign in.
SignUp ==
  /\ account.status = "none" /\ terms.published
  /\ account' = [account EXCEPT !.status = "pending", !.accepted = terms.version,
                                !.applied = TRUE]
  /\ user' = [user EXCEPT ![Applicant] = [role |-> "admin", active |-> FALSE]]
  /\ UNCHANGED <<review, edit, link, key, terms, ordered, unpriced>>

\* onboard_client: ops types the client in, with its rates or without, and
\* nobody has accepted anything.
Onboard ==
  /\ account.status = "none"
  /\ \E rates \in Rates : account' = [account EXCEPT !.status = "active", !.rates = rates]
  /\ user' = [user EXCEPT ![Applicant] = [role |-> "admin", active |-> TRUE]]
  /\ UNCHANGED <<review, edit, link, key, terms, ordered, unpriced>>

\* approve_signup and reject_signup read the row ...
Consider(o, what) ==
  /\ review[o] = "idle" /\ account.status = "pending"
  /\ review' = [review EXCEPT ![o] = what]
  /\ UNCHANGED <<account, user, edit, link, key, terms, ordered, unpriced>>

\* mutant: the client is let in before its rates are written
Decided_RatesLater(what) ==
  {[account EXCEPT !.status = IF what = "approve" THEN "active" ELSE "rejected"]}

\* ... and write what they decided: the status and at least one rate in one
\* transaction.
Decided(what) ==
  IF what = "reject" THEN {[account EXCEPT !.status = "rejected"]}
  ELSE {[account EXCEPT !.status = "active", !.rates = IF @ = "all" THEN @ ELSE r] :
          r \in {"some", "all"}}

Decide(o) ==
  /\ review[o] # "idle"
  /\ IF account.status = "erased" THEN UNCHANGED <<account, user>>
     ELSE /\ account' \in Decided(review[o])
          /\ user' = IF review[o] = "reject" THEN user
               ELSE [u \in Users |-> [user[u] EXCEPT !.active = @ \/ user[u].role # "none"]]
  /\ review' = [review EXCEPT ![o] = "idle"]
  /\ UNCHANGED <<edit, link, key, terms, ordered, unpriced>>

\* get_current_client, require_client_admin: the row, on every request.
MaySignIn(u) == user[u].role # "none" /\ user[u].active
IsAdmin(u) == MaySignIn(u) /\ user[u].role = "admin"

CreateUser(a, u) ==
  /\ IsAdmin(a) /\ user[u].role = "none"
  /\ \E role \in {"admin", "member"} :
       user' = [user EXCEPT ![u] = [role |-> role, active |-> TRUE]]
  /\ UNCHANGED <<account, review, edit, link, key, terms, ordered, unpriced>>

\* update_my_client_user reads and counts ...
Removes(u, role, active) == IsAdmin(u) /\ (role # "admin" \/ ~active)

ReadUser(a, u, role, active) ==
  /\ IsAdmin(a) /\ edit[a] = NoEdit
  /\ user[u].role # "none" /\ user[u] # [role |-> role, active |-> active]
  /\ Removes(u, role, active) => \E v \in Users \ {u} : IsAdmin(v)
  /\ edit' = [edit EXCEPT ![a] = [of |-> u, role |-> role, active |-> active]]
  /\ UNCHANGED <<account, user, review, link, key, terms, ordered, unpriced>>

\* ... and writes, whatever has happened since.
WriteUser(a) ==
  /\ edit[a] # NoEdit
  /\ user' = [user EXCEPT ![edit[a].of] = IF @.role = "none" THEN @
                ELSE [role |-> edit[a].role, active |-> edit[a].active]]
  /\ edit' = [edit EXCEPT ![a] = NoEdit]
  /\ UNCHANGED <<account, review, link, key, terms, ordered, unpriced>>

\* request_password_reset mails a link to an active user only; GETDEL spends
\* it, and it is worth nothing to a user switched off since.
RequestReset(u) ==
  /\ MaySignIn(u) /\ u \notin link
  /\ link' = link \cup {u}
  /\ UNCHANGED <<account, user, review, edit, key, terms, ordered, unpriced>>

ConfirmReset(u) ==
  /\ u \in link
  /\ link' = link \ {u}
  /\ UNCHANGED <<account, user, review, edit, key, terms, ordered, unpriced>>

\* create_my_api_key and revoke_my_api_key
SwitchKey(a) ==
  /\ IsAdmin(a)
  /\ key' = IF key = "live" THEN "revoked" ELSE "live"
  /\ UNCHANGED <<account, user, review, edit, link, terms, ordered, unpriced>>

\* accept_current_terms
AcceptTerms(a) ==
  /\ IsAdmin(a) /\ terms.published /\ account.status # "erased"
  /\ account' = [account EXCEPT !.accepted = terms.version]
  /\ UNCHANGED <<user, review, edit, link, key, terms, ordered, unpriced>>

\* A release brings a new version, published or still a draft.
NewTerms ==
  /\ terms.version < MAX_VERSION
  /\ \E published \in BOOLEAN : terms' = [version |-> terms.version + 1, published |-> published]
  /\ UNCHANGED <<account, user, review, edit, link, key, ordered, unpriced>>

\* acceptance_is_current: a draft obliges nobody.
AcceptanceIsCurrent == terms.published => account.accepted = terms.version

\* _require_approved_client in the portal, get_api_client for a key.
PlaceOrder ==
  /\ account.status = "active" /\ AcceptanceIsCurrent
  /\ (\E u \in Users : MaySignIn(u)) \/ key = "live"
  /\ ordered' = ordered \cup {account.accepted}
  /\ \E rates \in Rates \ {"some"} :    \* the order's tier has a rate, or not
       /\ account.rates \in {rates, "some"}
       /\ unpriced' = (unpriced \/ rates = "none")
  /\ UNCHANGED <<account, user, review, edit, link, key, terms>>

\* upsert_client_rate; rates are added to, never taken away.
SetRate ==
  /\ account.status \notin {"none", "erased"} /\ account.rates # "all"
  /\ \E r \in {"some", "all"} : account' = [account EXCEPT !.rates = r]
  /\ UNCHANGED <<user, review, edit, link, key, terms, ordered, unpriced>>

\* declined_application_retention_days pass.
Ripens ==
  /\ account.status = "rejected" /\ ~account.ripe
  /\ account' = [account EXCEPT !.ripe = TRUE]
  /\ UNCHANGED <<user, review, edit, link, key, terms, ordered, unpriced>>

\* mutant: a declined application has nothing worth keeping
MustBeAbsent_Nothing == TRUE

\* _MUST_BE_ABSENT
MustBeAbsent == ordered = {}

\* prune_declined_applications: the row and everything the applicant owns.
Prune ==
  /\ account.status = "rejected" /\ account.ripe /\ MustBeAbsent
  /\ account' = [account EXCEPT !.status = "erased", !.rates = "none"]
  /\ user' = [u \in Users |-> [role |-> "none", active |-> FALSE]]
  /\ key' = "none"
  /\ UNCHANGED <<review, edit, link, terms, ordered, unpriced>>

Next ==
  \/ SignUp \/ Onboard \/ NewTerms \/ PlaceOrder \/ SetRate \/ Ripens \/ Prune
  \/ \E o \in Reviewers, what \in {"approve", "reject"} : Consider(o, what)
  \/ \E o \in Reviewers : Decide(o)
  \/ \E a, u \in Users : CreateUser(a, u)
  \/ \E a, u \in Users, role \in {"admin", "member"}, active \in BOOLEAN :
       ReadUser(a, u, role, active)
  \/ \E a \in Users : WriteUser(a) \/ SwitchKey(a) \/ AcceptTerms(a)
  \/ RequestReset(Applicant) \/ ConfirmReset(Applicant)

Spec == Init /\ [][Next]_vars

-----------------------------------------------------------------------------
\* What a client's orders rest on stays: nobody who applied through the portal
\* ever ordered with no rate agreed or under no terms, and once it has ordered
\* its account is never erased - not even when one administrator declined the
\* application while another was approving it.
OrdersHaveABasis ==
  ordered # {} =>
    /\ account.status # "erased"
    /\ account.applied => account.rates # "none" /\ 0 \notin ordered

\* Approval asks for rates so that "Order.fee_cents is never null" for a client
\* that came through the portal; one rate is enough for it, and an order of
\* another tier has none.  It does not hold (README, known gaps).
ApprovedOrdersArePriced == account.applied => ~unpriced

\* The decline promises that the applicant's user stays inactive, "so nothing
\* can log in"; the two decisions do not lock the row they decide about.  It
\* does not hold (README, known gaps).
DeclinedCannotSignIn ==
  account.status = "rejected" => \A u \in Users : ~MaySignIn(u)
=============================================================================
