---------------------------- MODULE PanelRequests ----------------------------
(***************************************************************************)
(* The requests of operators at the Admin Panel.  Each has a session of    *)
(* its own with the database and goes through a few transactions; what the *)
(* request has read so far is kept between them.  A request without a      *)
(* valid sign-in or form token reaches no service and is left out.         *)
(***************************************************************************)
EXTENDS Naturals

CONSTANTS
  Operators,   \* operators working at the same time
  MaxRequests  \* bound: requests submitted

ASSUME RequestsAssumption == MaxRequests \in Nat

VARIABLES
  session,   \* the request each operator waits for, and what it has read
  requests   \* requests submitted so far

panelVars == <<session, requests>>

Idle == [pc |-> "idle"]

NoRequests ==
  /\ session = [o \in Operators |-> Idle]
  /\ requests = 0

MaySubmit(o) == session[o] = Idle /\ requests < MaxRequests

\* An operator submits a form, and the request goes on as r.
Submit(o, r) ==
  /\ MaySubmit(o)
  /\ session' = [session EXCEPT ![o] = r]
  /\ requests' = requests + 1

Proceed(o, r) ==
  /\ session' = [session EXCEPT ![o] = r]
  /\ UNCHANGED requests

Respond(o) == Proceed(o, Idle)

\* A form that is handled in one transaction.
Handle(o) == Submit(o, Idle)

=============================================================================
