--------------------------- MODULE JsAtomicRuntime ---------------------------
(***************************************************************************)
(* What executeTx of the algorand-js Runtime promises its caller: a call  *)
(* runs its program and, if the program succeeds, applies the program's   *)
(* writes and the payments of its transactions to the state as one step;  *)
(* if the program throws, the state is left as it was.  Calls may be      *)
(* pending together, but each takes effect alone, at one instant between  *)
(* its invocation and its return, against the state of that instant.      *)
(***************************************************************************)
EXTENDS JsState

CONSTANTS Calls,      \* the executeTx invocations of a test
          Requests,   \* [txns : Seq(Txns), o : Outcomes]: what a call is given
          InitAmount  \* the balances of the accounts given to the constructor

VARIABLES store,      \* the global and local states of the apps
          accounts,   \* the balances
          req,        \* req[i]: the request of call i, NONE before it is made
          status      \* "idle", "pending", "returned" or "threw"

Init ==
  /\ store = InitialStore
  /\ accounts = InitAmount
  /\ req = [i \in Calls |-> NONE]
  /\ status = [i \in Calls |-> "idle"]

Invoke(i, rq) ==
  /\ status[i] = "idle"
  /\ req' = [req EXCEPT ![i] = rq]
  /\ status' = [status EXCEPT ![i] = "pending"]
  /\ UNCHANGED <<store, accounts>>

\* the instant call i takes effect: all of it, or nothing
Complete(i) ==
  LET r == RunProgram(store, Head(req[i].txns), req[i].o) IN
  /\ status[i] = "pending"
  /\ IF r.ok
     THEN /\ store' = r.st
          /\ accounts' = PrepareFinalState(req[i].txns, accounts)
          /\ status' = [status EXCEPT ![i] = "returned"]
     ELSE /\ status' = [status EXCEPT ![i] = "threw"]
          /\ UNCHANGED <<store, accounts>>
  /\ UNCHANGED req

Next == \E i \in Calls : (\E rq \in Requests : Invoke(i, rq)) \/ Complete(i)

Spec == Init /\ [][Next]_<<store, accounts, req, status>>
====
