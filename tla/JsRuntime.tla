------------------------------ MODULE JsRuntime ------------------------------
(***************************************************************************)
(* The Runtime class of packages/algorand-js/src/runtime/runtime.ts.       *)
(*                                                                         *)
(* executeTx is async.  Up to its await it runs synchronously: it builds   *)
(* this.ctx with a deep copy of this.store and runs the program on it      *)
(* (Interpreter.execute has no await of its own before it finishes).  The  *)
(* rest runs later, when the event loop resumes the call: it assigns       *)
(* this.store = this.ctx.state and applies the payments to this.accounts.  *)
(* A test that does not await each call lets other calls run in between,   *)
(* and this.ctx is a field of the runtime, not of the call.               *)
(*                                                                         *)
(* Balances: the constructor keeps the account objects it is given in      *)
(* this.accounts and puts them in the store; the first executeTx replaces  *)
(* the store by a deep copy, and from then on prepareFinalState updates    *)
(* only this.accounts.  The store's balances never change again, so the   *)
(* model keeps the balances of this.accounts only.                         *)
(***************************************************************************)
EXTENDS JsState

CONSTANTS MaxCalls,    \* the executeTx invocations of a test
          MaxPending,  \* how many of them may be in flight (1: each awaited)
          Requests,    \* [txns : Seq(Txns), o : Outcomes]
          InitAmount   \* the balances of the account objects given to the constructor

Calls == 1..MaxCalls

VARIABLES store,     \* this.store: globalApps and the accounts' local states
          accounts,  \* this.accounts: address -> amount
          ctx,       \* this.ctx: [state, tx]
          pc,        \* pc[i]: where call i is
          req        \* req[i]: the txnParams and program of call i

vars == <<store, accounts, ctx, pc, req>>

Pending == {i \in Calls : pc[i] \in {"awaiting", "throwing"}}

\* the constructor and initializeAccounts: the apps the accounts created
\* are put in store.globalApps; this.ctx starts empty
Init ==
  /\ store = InitialStore
  /\ accounts = InitAmount
  /\ ctx = [state |-> NONE, tx |-> NONE]
  /\ pc = [i \in Calls |-> "idle"]
  /\ req = [i \in Calls |-> NONE]

\* (mutant) this.ctx.state = this.store, without cloneDeep: the program
\* writes the store itself
ExecuteTxNoClone(i, rq) ==
  LET tx == Head(rq.txns)
      r == RunProgram(store, tx, rq.o)
  IN /\ pc[i] = "idle"
     /\ \A j \in 1..(i - 1) : pc[j] # "idle"
     /\ Cardinality(Pending) < MaxPending
     /\ ctx' = [state |-> r.st, tx |-> tx]
     /\ pc' = [pc EXCEPT ![i] = IF r.ok THEN "awaiting" ELSE "throwing"]
     /\ req' = [req EXCEPT ![i] = rq]
     /\ store' = r.st
     /\ UNCHANGED accounts

\* executeTx(txnParams), up to the await: createTxnContext (ctx.tx is the
\* first transaction), this.ctx = {state: cloneDeep(this.store), ...}, and
\* the program runs on this.ctx.state.  The call is suspended whether the
\* program returned or threw.
ExecuteTx(i, rq) ==
  LET tx == Head(rq.txns)
      r == RunProgram(store, tx, rq.o)
  IN /\ pc[i] = "idle"
     /\ \A j \in 1..(i - 1) : pc[j] # "idle"
     /\ Cardinality(Pending) < MaxPending
     /\ ctx' = [state |-> r.st, tx |-> tx]
     /\ pc' = [pc EXCEPT ![i] = IF r.ok THEN "awaiting" ELSE "throwing"]
     /\ req' = [req EXCEPT ![i] = rq]
     /\ UNCHANGED <<store, accounts>>

\* after the await: this.store = this.ctx.state, whoever built this.ctx,
\* then prepareFinalState(txnParams, this.accounts)
Resume(i) ==
  /\ pc[i] = "awaiting"
  /\ store' = ctx.state
  /\ accounts' = PrepareFinalState(req[i].txns, accounts)
  /\ pc' = [pc EXCEPT ![i] = "returned"]
  /\ UNCHANGED <<ctx, req>>

\* the await rethrows the program's error; nothing after it runs
Reject(i) ==
  /\ pc[i] = "throwing"
  /\ pc' = [pc EXCEPT ![i] = "threw"]
  /\ UNCHANGED <<store, accounts, ctx, req>>

Next == \E i \in Calls : (\E rq \in Requests : ExecuteTx(i, rq)) \/ Resume(i) \/ Reject(i)

Spec == Init /\ [][Next]_vars

-----------------------------------------------------------------------------
(***************************************************************************)
(* Properties                                                              *)
(***************************************************************************)

\* Types.  A committed global or local state is within the app's schema
\* (spec invariant 7): updateGlobalState's and updateLocalState's
\* assertValidSchema throws otherwise, and the store only takes states of
\* programs that returned.
TypeOK ==
  /\ store \in States
  /\ \A p \in Apps : NumKeys(store.global[p]) <= GSchema
  /\ \A a \in Addr, p \in Apps : store.local[a][p] # NONE => NumKeys(store.local[a][p]) <= LSchema
  /\ ctx.state \in States \cup {NONE}
  /\ accounts \in [Addr -> Int]
  /\ pc \in [Calls -> {"idle", "awaiting", "throwing", "returned", "threw"}]
  /\ req \in [Calls -> Requests \cup {NONE}]

\* executeTx is atomic: every call takes effect alone, all or nothing, at
\* the instant it returns (or throws), in the order the calls return, as
\* JsAtomicRuntime says; in particular a returned call's writes are in the
\* store and a thrown call's writes never are.
Atomic == INSTANCE JsAtomicRuntime WITH
  Calls <- Calls,
  status <- [i \in Calls |-> IF pc[i] \in {"awaiting", "throwing"} THEN "pending" ELSE pc[i]]

ImplementsAtomicExecuteTx == Atomic!Spec

====
