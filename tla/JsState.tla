------------------------------ MODULE JsState ------------------------------
(***************************************************************************)
(* The world state of the older algorand-js Runtime                        *)
(* (packages/algorand-js/src/runtime), and the operations on it that do    *)
(* not depend on when they run: updateGlobalState, the program a call      *)
(* runs, and prepareFinalState.  Shared by the code model JsRuntime and    *)
(* the atomic specification JsAtomicRuntime.                               *)
(*                                                                         *)
(* A global state is the app's "global-state" list of key-value pairs, a   *)
(* function from keys to values or NONE; its size is the number of keys   *)
(* that are set.  All values are of one type, so the schema of an app is   *)
(* one number: GSchema keys for its global state, LSchema for a local one. *)
(* A local state is an entry of an account's appsLocalState: NONE until   *)
(* the account has opted in to the app.                                   *)
(***************************************************************************)
EXTENDS Integers, Sequences, SequencesExt, FiniteSets

CONSTANTS Addr,      \* addresses of the accounts passed to the constructor
          Apps,      \* ids of the apps those accounts created
          Keys, Vals,
          GSchema,   \* num-uint + num-byte-slice of every app's global schema
          LSchema,   \* and of its local schema
          OptedIn,   \* the accounts that opted in to the apps before the Runtime was made
          NONE

KV == [Keys -> Vals \cup {NONE}]
EmptyKV == [k \in Keys |-> NONE]
NumKeys(kv) == Cardinality({k \in Keys : kv[k] # NONE})

\* store / ctx.state: globalApps (app id -> its global state), and the
\* appsLocalState of the accounts (address -> app id -> local state)
States == [global : [Apps -> KV], local : [Addr -> [Apps -> KV \cup {NONE}]]]

\* initializeAccounts: every account is put in store.accounts, and every app
\* an account created in store.globalApps; the accounts' local states come
\* with them
InitialStore ==
  [global |-> [p \in Apps |-> EmptyKV],
   local |-> [a \in Addr |-> [p \in Apps |-> IF a \in OptedIn THEN EmptyKV ELSE NONE]]]

\* a transaction of txnParams: a payment, or an app call (apid 0: none)
Txns == [type : {"pay"}, from : Addr, to : Addr, amt : Nat, apid : {0}]
        \cup [type : {"call"}, from : Addr, to : Addr, amt : {0}, apid : Apps \cup {0}]

\* what the program given to executeTx does: put key := val in the global
\* state of ctx.tx.apid, or in the sender's local state for it, or
\* nothing; then approve or reject
Outcomes == [eff : {"none", "global", "local"}, key : Keys, val : Vals, accept : BOOLEAN]

Ret(st) == [ok |-> TRUE, st |-> st]
Throw(st) == [ok |-> FALSE, st |-> st]

\* (mutant) updateGlobalState without assertValidSchema
UpdateGlobalStateNoSchemaCheck(st, appId, key, val) ==
  IF appId \notin Apps THEN Throw(st) ELSE Ret([st EXCEPT !.global[appId][key] = val])

\* updateGlobalState: assertAppDefined on ctx.state.globalApps, then the
\* pair is set (pushed or updated) in place, and only then is the schema
\* checked, so a throw leaves the write in the state
UpdateGlobalState(st, appId, key, val) ==
  IF appId \notin Apps THEN Throw(st)
  ELSE LET st2 == [st EXCEPT !.global[appId][key] = val]
       IN IF NumKeys(st2.global[appId]) > GSchema THEN Throw(st2) ELSE Ret(st2)

\* updateLocalState of the account getAccount(0) gives, the sender in
\* ctx.state.accounts: the entry of appsLocalState with the app's id, or
\* APP_NOT_FOUND; the pair is set in place before assertValidSchema
UpdateLocalState(st, a, appId, key, val) ==
  IF appId \notin Apps \/ st.local[a][appId] = NONE THEN Throw(st)
  ELSE LET st2 == [st EXCEPT !.local[a][appId][key] = val]
       IN IF NumKeys(st2.local[a][appId]) > LSchema THEN Throw(st2) ELSE Ret(st2)

\* Interpreter.execute(program, runtime) on ctx: the app is the one of
\* ctx.tx, which is txnParams[1]; a rejecting program throws after its writes
RunProgram(st, tx, o) ==
  LET r == CASE o.eff = "global" -> UpdateGlobalState(st, tx.apid, o.key, o.val)
             [] o.eff = "local" -> UpdateLocalState(st, tx.from, tx.apid, o.key, o.val)
             [] OTHER -> Ret(st)
  IN IF r.ok /\ ~o.accept THEN Throw(r.st) ELSE r

\* updateBalance(txnParam, account): a switch on the account's address,
\* so a payment to oneself only takes the amount away
UpdateBalance(t, a, amount) ==
  IF t.type # "pay" THEN amount
  ELSE IF a = t.from THEN amount - t.amt
  ELSE IF a = t.to THEN amount + t.amt
  ELSE amount

\* prepareFinalState(txnParams, accounts): every transaction, in order, on
\* every account object
PrepareFinalState(txns, accounts) ==
  FoldLeft(LAMBDA acc, t : [a \in Addr |-> UpdateBalance(t, a, acc[a])], accounts, txns)
====
