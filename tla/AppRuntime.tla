----------------------------- MODULE AppRuntime -----------------------------
(***************************************************************************)
(* The application lifecycle of the Runtime class at the end of            *)
(* packages/runtime/src/interpreter/opcode-list.ts (lines 2613-3133):      *)
(* addApp, optInToApp, updateApp, deleteApp and executeTx with             *)
(* updateFinalState.                                                       *)
(*                                                                         *)
(* The Runtime keeps two world states, this.store and this.ctx.state, and  *)
(* JavaScript shares objects between them:                                 *)
(*   - executeTx sets ctx.state to cloneDeep(store): nothing is shared;    *)
(*   - addApp puts the store's account object of the sender into          *)
(*     ctx.state.accounts: that one account is shared;                     *)
(*   - updateFinalState sets store = ctx.state: everything is shared until *)
(*     the next executeTx.                                                 *)
(* The model keeps both states as values, plus which accounts are shared   *)
(* (alias) and whether the whole state is (shared); a write through one    *)
(* side is seen through the other exactly when the object is shared.      *)
(*                                                                         *)
(* A TEAL program is abstracted to what it does to app state: nothing, one *)
(* app_global_put of the current app, or one app_local_put of the sender   *)
(* for the current app, then accept or reject.  The current app and the    *)
(* sender are read from ctx.tx, as the opcodes do.                         *)
(***************************************************************************)
EXTENDS Integers, FiniteSets, Sequences, Functions

CONSTANTS
  Addr,      \* accounts of the store
  MaxApps,   \* bound on appCounter
  MaxCalls,  \* bound on the public calls a run makes
  Keys,      \* state keys a program writes
  Vals,      \* values a program writes
  NONE,      \* absent entry of a Map
  InitBalance, \* microAlgos of every account at the start
  TxnGroups  \* the transaction groups a test passes to executeTx

AppIds == 1..MaxApps
\* app 0 is the app addApp creates while its approval program runs
AppIds0 == 0..MaxApps

KV == [Keys -> Vals \cup {NONE}]
EmptyKV == [k \in Keys |-> NONE]
\* a StoreAccount: its created apps (with their global state) and its
\* app local states
Account == [amount : Int, created : [AppIds0 -> KV \cup {NONE}], local : [AppIds -> KV \cup {NONE}]]

\* what a program run does
Outcomes == [eff : {"none", "global", "local"}, key : Keys, val : Vals, accept : BOOLEAN]

VARIABLES
  rt,          \* the two world states and what they share
  tx,          \* ctx.tx: [snd, apid] of the current transaction
  appCounter,  \* this.appCounter
  programs,    \* the app ids of this.programMap
  lastCall,    \* the last public call: its kind, result and program write
  calls        \* public calls made so far

vars == <<rt, tx, appCounter, programs, lastCall, calls>>

(***************************************************************************)
(* rt.sa, rt.sga: store.accounts and store.globalApps; rt.ca, rt.cga the   *)
(* same maps of ctx.state; rt.al[a]: the account object of a is shared;    *)
(* rt.sh: store and ctx.state are one object.                              *)
(***************************************************************************)
Shared(w, a) == w.sh \/ w.al[a]

\* a change of account a made through store (resp. ctx.state)
StoreSetAcct(w, a, acc) ==
  [w EXCEPT !.sa[a] = acc, !.ca[a] = IF Shared(w, a) THEN acc ELSE @]
CtxSetAcct(w, a, acc) ==
  [w EXCEPT !.ca[a] = acc, !.sa[a] = IF Shared(w, a) THEN acc ELSE @]
StoreSetApp(w, i, c) == [w EXCEPT !.sga[i] = c, !.cga[i] = IF w.sh THEN c ELSE @]
CtxSetApp(w, i, c) == [w EXCEPT !.cga[i] = c, !.sga[i] = IF w.sh THEN c ELSE @]

\* results of a call: the state at its end (or at the throw) and whether it
\* returned
Ret(w) == [ok |-> TRUE, w |-> w]
Throw(w) == [ok |-> FALSE, w |-> w]

(***************************************************************************)
(* run(program): Interpreter.execute with ctx.  app_global_put writes the *)
(* global state of ctx.tx.apid at its creator in ctx.state (APP_NOT_FOUND  *)
(* if either is missing); app_local_put writes the sender's local state of *)
(* that app in ctx.state (it must be opted in there).  A rejecting         *)
(* program throws after its writes.                                        *)
(***************************************************************************)
GlobalPut(w, t, o) ==
  LET c == w.cga[t.apid] IN
  IF c = NONE THEN Throw(w)
  ELSE IF w.ca[c].created[t.apid] = NONE THEN Throw(w)
  ELSE Ret(CtxSetAcct(w, c, [w.ca[c] EXCEPT !.created[t.apid][o.key] = o.val]))

LocalPut(w, t, o) ==
  IF t.apid = 0 THEN Throw(w)
  ELSE IF w.ca[t.snd].local[t.apid] = NONE THEN Throw(w)
  ELSE Ret(CtxSetAcct(w, t.snd, [w.ca[t.snd] EXCEPT !.local[t.apid][o.key] = o.val]))

Run(w, t, o) ==
  LET r == CASE o.eff = "global" -> GlobalPut(w, t, o)
             [] o.eff = "local"  -> LocalPut(w, t, o)
             [] OTHER            -> Ret(w)
  IN IF r.ok /\ ~o.accept THEN Throw(r.w) ELSE r

Call(kind, r, t, o, app) ==
  [kind |-> kind, ok |-> r.ok, eff |-> o.eff, key |-> o.key, val |-> o.val,
   snd |-> t.snd, app |-> app]

(***************************************************************************)
(* StoreAccount operations.  StoreAccount is not under src/; these follow  *)
(* the spec's account store.  Its limit of 10 created apps and 10 opt-ins  *)
(* (spec invariant 6) is never reached with MaxApps apps, so it is left    *)
(* out.                                                                    *)
(***************************************************************************)
\* addApp(id): a created app with an empty global state
AccountAddApp(acc, i) == [acc EXCEPT !.created[i] = EmptyKV]
\* optInToApp: a no-op when already opted in
AccountOptIn(acc, i) ==
  IF acc.local[i] # NONE THEN acc ELSE [acc EXCEPT !.local[i] = EmptyKV]
AccountDeleteApp(acc, i) == [acc EXCEPT !.created[i] = NONE]

(***************************************************************************)
(* addApp: the sender's store account gets app 0 and is put into          *)
(* ctx.state, app 0 is registered in ctx.state.globalApps, the approval   *)
(* program runs, and only then is app ++appCounter registered in the      *)
(* store and app 0 renamed to it.                                          *)
(***************************************************************************)
\* (mutant) programMap keyed by appCounter before it is incremented
AddAppProgramsOffByOne(s, o) ==
  LET w1 == StoreSetAcct(rt, s, AccountAddApp(rt.sa[s], 0))
      w2 == [w1 EXCEPT !.ca[s] = w1.sa[s], !.al[s] = TRUE]
      w3 == CtxSetApp(w2, 0, s)
      t == [snd |-> s, apid |-> 0]
      r == Run(w3, t, o)
      n == appCounter + 1
      w4 == StoreSetApp(r.w, n, s)
      attrs == w4.sa[s].created[0]
      w5 == CtxSetApp(w4, 0, NONE)
      w6 == StoreSetAcct(w5, s, [w5.sa[s] EXCEPT !.created[0] = NONE, !.created[n] = attrs])
  IN /\ appCounter < MaxApps
     /\ tx' = t
     /\ IF r.ok
        THEN /\ rt' = w6
             /\ appCounter' = n
             /\ programs' = programs \cup {appCounter}
             /\ lastCall' = Call("addApp", r, t, o, n)
        ELSE /\ rt' = r.w
             /\ lastCall' = Call("addApp", r, t, o, 0)
             /\ UNCHANGED <<appCounter, programs>>

AddApp(s, o) ==
  LET w1 == StoreSetAcct(rt, s, AccountAddApp(rt.sa[s], 0))
      w2 == [w1 EXCEPT !.ca[s] = w1.sa[s], !.al[s] = TRUE]
      w3 == CtxSetApp(w2, 0, s)
      t == [snd |-> s, apid |-> 0]
      r == Run(w3, t, o)
      n == appCounter + 1
      w4 == StoreSetApp(r.w, n, s)
      attrs == w4.sa[s].created[0]
      w5 == CtxSetApp(w4, 0, NONE)
      w6 == StoreSetAcct(w5, s, [w5.sa[s] EXCEPT !.created[0] = NONE, !.created[n] = attrs])
  IN /\ appCounter < MaxApps
     /\ tx' = t
     /\ IF r.ok
        THEN /\ rt' = w6
             /\ appCounter' = n
             /\ programs' = programs \cup {n}
             /\ lastCall' = Call("addApp", r, t, o, n)
        ELSE /\ rt' = r.w
             /\ lastCall' = Call("addApp", r, t, o, 0)
             /\ UNCHANGED <<appCounter, programs>>

\* getApp: registered in store.globalApps, and created at that account
GetApp(w, i) == w.sga[i] # NONE /\ w.sa[w.sga[i]].created[i] # NONE

\* a call that throws before it changes anything
Refused(kind, t, o, i) ==
  /\ lastCall' = Call(kind, Throw(rt), t, o, i)
  /\ UNCHANGED <<rt, tx, appCounter, programs>>

(***************************************************************************)
(* optInToApp: getApp in the store; ctx.tx becomes the opt-in transaction; *)
(* the approval program (getProgram(appId)[0]) runs on ctx.state, which   *)
(* is whatever the last executeTx or addApp left; then the store account   *)
(* is opted in.                                                            *)
(***************************************************************************)
OptInToApp(a, i, o) ==
  LET t == [snd |-> a, apid |-> i]
      r == Run(rt, t, o)
  IN IF ~GetApp(rt, i) THEN Refused("optIn", t, o, i)
     ELSE /\ tx' = t
          /\ IF i \notin programs
             THEN /\ lastCall' = Call("optIn", Throw(rt), t, o, i)
                  /\ UNCHANGED rt
             ELSE /\ rt' = IF r.ok THEN StoreSetAcct(r.w, a, AccountOptIn(r.w.sa[a], i)) ELSE r.w
                  /\ lastCall' = Call("optIn", r, t, o, i)
          /\ UNCHANGED <<appCounter, programs>>

(***************************************************************************)
(* updateApp: getApp in the store; ctx.tx becomes the update transaction;  *)
(* the old approval program runs on ctx.state; on success programMap gets *)
(* the new programs (the set of app ids is unchanged).                    *)
(***************************************************************************)
UpdateApp(a, i, o) ==
  LET t == [snd |-> a, apid |-> i]
      r == Run(rt, t, o)
  IN IF ~GetApp(rt, i) THEN Refused("update", t, o, i)
     ELSE /\ tx' = t
          /\ IF i \notin programs
             THEN /\ lastCall' = Call("update", Throw(rt), t, o, i)
                  /\ UNCHANGED rt
             ELSE /\ rt' = r.w
                  /\ lastCall' = Call("update", r, t, o, i)
          /\ UNCHANGED <<appCounter, programs>>

\* (mutant) deleteApp that leaves store.globalApps as it was
StoreDeleteAppNoUnregister(w, i) ==
  LET c == w.sga[i] IN
  StoreSetAcct(w, c, AccountDeleteApp(w.sa[c], i))

\* deleteApp on the store: the creator's account drops the app, then
\* store.globalApps and programMap do
StoreDeleteApp(w, i) ==
  LET c == w.sga[i] IN
  StoreSetApp(StoreSetAcct(w, c, AccountDeleteApp(w.sa[c], i)), i, NONE)

\* the public deleteApp(appId)
DeleteApp(i) ==
  LET t == [snd |-> tx.snd, apid |-> i]
      o == [eff |-> "none", key |-> lastCall.key, val |-> lastCall.val, accept |-> TRUE]
  IN IF rt.sga[i] = NONE THEN Refused("delete", t, o, i)
     ELSE /\ rt' = StoreDeleteApp(rt, i)
          /\ programs' = programs \ {i}
          /\ lastCall' = Call("delete", Ret(rt), t, o, i)
          /\ UNCHANGED <<tx, appCounter>>

(***************************************************************************)
(* executeTx(txnParams): ctx.state = cloneDeep(store) and ctx.tx the first *)
(* transaction of the group (createTxnContext returns txns[0]).  Then, in *)
(* order, every app call (NoOp, CloseOut, DeleteApplication: the approval *)
(* program; ClearState: the clear program) runs on ctx.state -- each with *)
(* ctx.tx still the first transaction; a payment runs nothing here.  The  *)
(* first throw ends executeTx.  Otherwise updateFinalState sets store =    *)
(* ctx.state and then, in order, applies each payment with transferAlgo   *)
(* and each DeleteApplication with deleteApp, both on the store; a throw   *)
(* there leaves the store as far as it got.  CloseOut and ClearState      *)
(* change no local state in this Runtime.                                 *)
(***************************************************************************)
CallKinds == {"noop", "closeout", "clear", "deleteApp"}
\* a transaction: an app call of app, or a payment of amt to to
Txn == [type : CallKinds, snd : Addr, app : AppIds, to : Addr, amt : {0}]
         \cup [type : {"pay"}, snd : Addr, app : {0}, to : Addr, amt : Nat]

\* ctx.tx: the first transaction; a payment has no apid (app 0 is not found)
CtxTx(g) == [snd |-> g[1].snd, apid |-> g[1].app]

\* a payment's run: nothing
NoRun == [eff |-> "none", key |-> CHOOSE k \in Keys : TRUE, val |-> CHOOSE v \in Vals : TRUE, accept |-> TRUE]
OutcomesOf(t) == IF t.type = "pay" THEN {NoRun} ELSE Outcomes
OutcomeSeqs(g) == {os \in [DOMAIN g -> Outcomes \cup {NoRun}] : \A i \in DOMAIN g : os[i] \in OutcomesOf(g[i])}

\* the loop of executeTx from transaction i: getProgram throws for an app
\* not in programMap, run throws when the program fails
RECURSIVE RunPrograms(_, _, _, _)
RunPrograms(r, g, os, i) ==
  IF i > Len(g) \/ ~r.ok THEN r
  ELSE IF g[i].type = "pay" THEN RunPrograms(r, g, os, i + 1)
  ELSE IF g[i].app \notin programs THEN Throw(r.w)
  ELSE RunPrograms(Run(r.w, CtxTx(g), os[i]), g, os, i + 1)

\* (mutant) transferAlgo that credits the receiver's balance as it was
\* before the debit
StoreTransferAlgoStale(w, p) ==
  LET to == w.sa[p.to]
      w1 == StoreSetAcct(w, p.snd, [w.sa[p.snd] EXCEPT !.amount = @ - p.amt])
  IN StoreSetAcct(w1, p.to, [to EXCEPT !.amount = @ + p.amt])

\* transferAlgo on the store: fromAccount.amount -= x, then
\* toAccount.amount += x, with no balance or minimum-balance check; both
\* are the one object when the sender pays itself
StoreTransferAlgo(w, p) ==
  LET w1 == StoreSetAcct(w, p.snd, [w.sa[p.snd] EXCEPT !.amount = @ - p.amt])
  IN StoreSetAcct(w1, p.to, [w1.sa[p.to] EXCEPT !.amount = @ + p.amt])

\* the loop of updateFinalState from transaction i: r.w is the state, r.p
\* programMap's app ids; deleteApp throws for an app no longer registered
RECURSIVE FinalState(_, _, _)
FinalState(r, g, i) ==
  IF i > Len(g) \/ ~r.ok THEN r
  ELSE IF g[i].type = "pay"
  THEN FinalState([r EXCEPT !.w = StoreTransferAlgo(r.w, g[i])], g, i + 1)
  ELSE IF g[i].type = "deleteApp"
  THEN IF r.w.sga[g[i].app] = NONE THEN [r EXCEPT !.ok = FALSE]
       ELSE FinalState([r EXCEPT !.w = StoreDeleteApp(r.w, g[i].app), !.p = @ \ {g[i].app}], g, i + 1)
  ELSE FinalState(r, g, i + 1)

\* the last app call of the group, 0 if there is none
LastCallOf(g) == IF \A i \in DOMAIN g : g[i].type = "pay" THEN 0
                 ELSE CHOOSE i \in DOMAIN g : g[i].type # "pay" /\ \A j \in DOMAIN g : j > i => g[j].type = "pay"

\* lastCall: the group's last app call (with the ctx.tx it ran under); a
\* group that deletes an app counts as a delete
GroupCall(g, os, r) ==
  LET j == LastCallOf(g)
      kind == IF \E i \in DOMAIN g : g[i].type = "deleteApp" THEN "deleteApp"
              ELSE IF j = 0 THEN "pay" ELSE g[j].type
  IN Call(kind, r, CtxTx(g), IF j = 0 THEN NoRun ELSE os[j], CtxTx(g).apid)

ExecuteTx(g, os) ==
  LET w0 == [rt EXCEPT !.ca = rt.sa, !.cga = rt.sga, !.al = [x \in Addr |-> FALSE], !.sh = FALSE]
      r == RunPrograms(Ret(w0), g, os, 1)
      w1 == [r.w EXCEPT !.sa = r.w.ca, !.sga = r.w.cga, !.sh = TRUE]
      f == FinalState([ok |-> TRUE, w |-> w1, p |-> programs], g, 1)
  IN /\ tx' = CtxTx(g)
     /\ UNCHANGED appCounter
     /\ IF ~r.ok
        THEN /\ rt' = r.w
             /\ lastCall' = GroupCall(g, os, r)
             /\ UNCHANGED programs
        ELSE /\ rt' = f.w
             /\ programs' = f.p
             /\ lastCall' = GroupCall(g, os, f)

InitWorld ==
  LET acc0 == [amount |-> InitBalance, created |-> [i \in AppIds0 |-> NONE], local |-> [i \in AppIds |-> NONE]] IN
  [sa |-> [a \in Addr |-> acc0], ca |-> [a \in Addr |-> acc0],
   sga |-> [i \in AppIds0 |-> NONE], cga |-> [i \in AppIds0 |-> NONE],
   al |-> [a \in Addr |-> FALSE], sh |-> FALSE]

\* the constructor: ctx.state = cloneDeep(store), no app yet
Init ==
  /\ rt = InitWorld
  /\ tx = [snd |-> CHOOSE a \in Addr : TRUE, apid |-> 0]
  /\ appCounter = 0
  /\ programs = {}
  /\ lastCall = [kind |-> "none", ok |-> TRUE, eff |-> "none", key |-> CHOOSE k \in Keys : TRUE,
                 val |-> CHOOSE v \in Vals : TRUE, snd |-> CHOOSE a \in Addr : TRUE, app |-> 0]
  /\ calls = 0

\* one public method of Runtime, called by a test
Next ==
  /\ calls < MaxCalls
  /\ calls' = calls + 1
  /\ \/ \E s \in Addr, o \in Outcomes : AddApp(s, o)
     \/ \E a \in Addr, i \in AppIds, o \in Outcomes : OptInToApp(a, i, o) \/ UpdateApp(a, i, o)
     \/ \E i \in AppIds : DeleteApp(i)
     \/ \E g \in TxnGroups : \E os \in OutcomeSeqs(g) : ExecuteTx(g, os)

Spec == Init /\ [][Next]_vars
(***************************************************************************)
(* Properties                                                              *)
(***************************************************************************)
World == [sa : [Addr -> Account], ca : [Addr -> Account],
          sga : [AppIds0 -> Addr \cup {NONE}], cga : [AppIds0 -> Addr \cup {NONE}],
          al : [Addr -> BOOLEAN], sh : BOOLEAN]

TypeOK ==
  /\ rt \in World
  /\ tx \in [snd : Addr, apid : AppIds0]
  /\ appCounter \in 0..MaxApps
  /\ programs \subseteq AppIds
  /\ calls \in 0..MaxCalls

\* The store's registries agree, for every app addApp has numbered: an app
\* is in store.globalApps exactly when programMap has its programs, its
\* creator's account holds it, and no other account does.  addApp,
\* deleteApp and the DeleteApplication of updateFinalState each change
\* the three maps, some through ctx.state, so a missed alias or an
\* unregistered map would break it.
LiveAppsRegistered ==
  \A i \in AppIds :
    /\ rt.sga[i] # NONE <=> i \in programs
    /\ \A a \in Addr : rt.sa[a].created[i] # NONE <=> rt.sga[i] = a

\* No microAlgo is created or destroyed in the store: updateFinalState's
\* transferAlgo takes the amount from the sender's store account and adds
\* it to the receiver's, reading the receiver after the debit -- the same
\* object when an account pays itself -- and while store and ctx.state are
\* one object; executeTx charges no fee, so the total stays what
\* initializeAccounts gave.
AlgosConserved ==
  SumFunction([a \in Addr |-> rt.sa[a].amount]) = InitBalance * Cardinality(Addr)

\* the store's part of the runtime: what getApp, getGlobalState,
\* getLocalState and the next executeTx read
StoreView == <<rt.sa, rt.sga, programs, appCounter>>

\* Atomicity (spec section 5): a public call that throws leaves the store
\* as it was, whatever its program wrote before rejecting and whatever
\* objects the store shares with ctx.state.
RejectedCallsChangeNothing ==
  [][~lastCall'.ok => StoreView' = StoreView]_vars

\* The writes a program made persist when its call returns: after a
\* successful addApp, optInToApp, updateApp or non-deleting executeTx the
\* store holds the value the program put (app_global_put at the app's
\* creator, app_local_put at the sender).
Persisted(w, c) ==
  IF c.eff = "global"
  THEN w.sga[c.app] # NONE /\ w.sa[w.sga[c.app]].created[c.app] # NONE
       /\ w.sa[w.sga[c.app]].created[c.app][c.key] = c.val
  ELSE w.sa[c.snd].local[c.app] # NONE /\ w.sa[c.snd].local[c.app][c.key] = c.val

SuccessfulWritesPersist ==
  [][lastCall'.ok /\ lastCall'.eff # "none" /\ lastCall'.kind # "deleteApp"
       => Persisted(rt', lastCall')]_vars
====
