----------------------------- MODULE TxnEngine -----------------------------
(***************************************************************************)
(* The transaction execution engine of the runtime package: class Ctx of   *)
(* packages/runtime/src/index.ts.  A group of transactions is executed on  *)
(* a deep copy (ctx) of the canonical world state (store); for each        *)
(* transaction Ctx.processTransactions deducts the fee, checks the         *)
(* signature kind, runs a logic signature, then dispatches on the          *)
(* transaction type.  The first exception rejects the whole group and the  *)
(* copy is dropped; otherwise the copy replaces the store.                 *)
(*                                                                         *)
(* TEAL programs are abstracted to their effect on the state this engine   *)
(* keeps: a program run may put one global key of the "current app",      *)
(* put one local key of the "current sender", or neither, and then         *)
(* accepts, rejects by logic (error 1007), or fails with another error.    *)
(* The current app and sender are those of ctx.tx, the transaction the     *)
(* interpreter reads (opcode-list.ts AppGlobalPut / AppLocalPut).          *)
(***************************************************************************)
EXTENDS Integers, Sequences, FiniteSets, Functions

CONSTANTS
  Addr,          \* account addresses (model values)
  NoAddr,        \* the zero address, also "no closeRemainderTo"
  AssetIds,      \* asset indices
  Apps,          \* application indices (never 0)
  Keys,          \* state keys a program may put
  Vals,          \* state values a program may put
  NONE,          \* absent map entry
  Creator,       \* the account that created the initial assets and apps
  Supply,        \* total of every initial asset
  InitBalance,   \* initial microAlgo balance of every account
  BaseMin,       \* minimum balance of an account with no opt-ins
  OptInMin,      \* minimum balance added per asset holding or app opt-in
  MaxGroupSize,  \* bound on the transactions of one group (code: 16)
  TxnSet         \* the transactions callers may submit

ASSUME Creator \in Addr /\ NoAddr \notin Addr /\ 0 \notin Apps
ASSUME MaxGroupSize \in 1..16

Roles == {"manager", "reserve", "freeze", "clawback"}
AppTypes == {"noop", "closeout", "clear", "delete"}

(***************************************************************************)
(* Transactions (ExecParams) as uniform records, built by constructors.    *)
(***************************************************************************)
BaseTx == [type |-> "none", from |-> NoAddr, to |-> NoAddr, amt |-> 0,
           close |-> NoAddr, asset |-> 0, app |-> 0, fields |-> NONE,
           target |-> NoAddr, state |-> FALSE, fee |-> 1,
           sign |-> "sk", lsig |-> NoAddr]
PayTx(f, r, a, c, fee) ==
  [BaseTx EXCEPT !.type = "pay", !.from = f, !.to = r, !.amt = a, !.close = c, !.fee = fee]
LsigPayTx(f, r, a, signer, fee) ==
  [PayTx(f, r, a, NoAddr, fee) EXCEPT !.sign = "lsig", !.lsig = signer]
AxferTx(f, r, x, a, c) ==
  [BaseTx EXCEPT !.type = "axfer", !.from = f, !.to = r, !.asset = x, !.amt = a, !.close = c]
AppTx(ty, f, p) == [BaseTx EXCEPT !.type = ty, !.from = f, !.app = p]
ModifyTx(f, x, flds) == [BaseTx EXCEPT !.type = "modify", !.from = f, !.asset = x, !.fields = flds]
FreezeTx(f, x, tgt, st) ==
  [BaseTx EXCEPT !.type = "freeze", !.from = f, !.asset = x, !.target = tgt, !.state = st]
RevokeTx(f, rcpt, x, tgt, a) ==
  [BaseTx EXCEPT !.type = "revoke", !.from = f, !.to = rcpt, !.asset = x, !.target = tgt, !.amt = a]
DestroyTx(f, x) == [BaseTx EXCEPT !.type = "destroy", !.from = f, !.asset = x]

(***************************************************************************)
(* What the programs a transaction runs do: the stateful program may put  *)
(* key k := v in the current app's global state or in the current         *)
(* sender's local state, then it accepts, rejects by logic (1007) or fails *)
(* otherwise; the stateless program of a logic signature accepts or not.  *)
(***************************************************************************)
Outcomes(t) ==
  [eff: IF t.type \in AppTypes THEN {"none", "global", "local"} ELSE {"none"},
   key: Keys, val: Vals,
   verdict: IF t.type \in AppTypes THEN {"accept", "logic", "error"} ELSE {"accept"},
   lsigAccepts: IF t.sign = "lsig" THEN BOOLEAN ELSE {TRUE}]

(***************************************************************************)
(* World state (type State of the runtime): accounts with their balance,  *)
(* asset holdings, created assets, created apps (holding the app's global *)
(* state) and app local states; globalApps and assetDefs map an index to  *)
(* its creator.  paid is a history field: fees deducted so far.           *)
(***************************************************************************)
KV == [Keys -> Vals \cup {NONE}]
Holding == [amount: 0..Supply, frozen: BOOLEAN]
Params == [total: {Supply}, manager: Addr \cup {NoAddr}, reserve: Addr \cup {NoAddr},
           freeze: Addr \cup {NoAddr}, clawback: Addr \cup {NoAddr}]
EmptyKV == [k \in Keys |-> NONE]

StateOK(s) ==
  /\ s.bal \in [Addr -> Nat]
  /\ s.hold \in [Addr -> [AssetIds -> Holding \cup {NONE}]]
  /\ s.createdAssets \in [Addr -> [AssetIds -> Params \cup {NONE}]]
  /\ s.assetDefs \in [AssetIds -> Addr \cup {NONE}]
  /\ s.createdApps \in [Addr -> [Apps -> KV \cup {NONE}]]
  /\ s.globalApps \in [Apps -> Addr \cup {NONE}]
  /\ s.local \in [Addr -> [Apps -> KV \cup {NONE}]]
  /\ s.paid \in Nat

VARIABLES
  store,   \* Runtime.store: the canonical world state
  ctx,     \* Ctx.state: the deep copy the running group works on
  group,   \* the transactions of the running group processed so far
  phase    \* "idle" between calls, "running" inside executeTx

vars == <<store, ctx, group, phase>>

(***************************************************************************)
(* Result of a step that may throw: code "ok", "logic" (RuntimeError 1007, *)
(* rejected by logic) or "error"; st is the state at return or at throw.   *)
(***************************************************************************)
Done(s) == [code |-> "ok", st |-> s]
Throw(s) == [code |-> "error", st |-> s]
Then(r, F(_)) == IF r.code = "ok" THEN F(r.st) ELSE r

\* StoreAccount.minBalance: base plus one unit per asset holding and app opt-in
MinBalance(s, a) ==
  BaseMin + OptInMin * ( Cardinality({x \in AssetIds : s.hold[a][x] # NONE})
                       + Cardinality({p \in Apps : s.local[a][p] # NONE}) )

\* Ctx.assertMinBalance: 'amt' can be withdrawn from the account
HasMinBalance(s, amt, a) == s.bal[a] - amt >= MinBalance(s, a)

\* fault: the fee is taken without assertMinBalance
DeductFeeNoMinCheck(s, t) == Done([s EXCEPT !.bal[t.from] = @ - t.fee, !.paid = @ + t.fee])

\* Ctx.deductFee
DeductFee(s, t) ==
  IF ~HasMinBalance(s, t.fee, t.from) THEN Throw(s)
  ELSE Done([s EXCEPT !.bal[t.from] = @ - t.fee, !.paid = @ + t.fee])

\* Runtime.assertAmbiguousTxnParams: secret-key signed but an lsig attached
Ambiguous(t) == t.sign = "sk" /\ t.lsig # NoAddr

\* Runtime.validateLsigAndRun: an lsig verifies for the address it was
\* signed by (delegated) or derived from (contract account)
ValidateLsigAndRun(s, t, o) ==
  IF t.lsig = NoAddr \/ t.lsig # t.from \/ ~o.lsigAccepts THEN Throw(s) ELSE Done(s)

\* Ctx.getApp / Runtime.assertAppDefined: app registered and held by its creator
AppExists(s, p) ==
  p \in Apps /\ s.globalApps[p] # NONE /\ s.createdApps[s.globalApps[p]][p] # NONE
GlobalStateOf(s, p) == s.createdApps[s.globalApps[p]][p]

(***************************************************************************)
(* Runtime.run of a stateful program.  The interpreter reads ctx.tx, which *)
(* processTransactions leaves at gtxs[0] (index.ts:372; it is never set to *)
(* gtxs[idx] for an app call), so the app written is the first             *)
(* transaction's apid (0 when it is not an app call) and account 0 is its  *)
(* sender.                                                                 *)
(***************************************************************************)
CtxTx(g) == g[1]
CurrentAppId(g) == IF CtxTx(g).type \in AppTypes THEN CtxTx(g).app ELSE 0

\* AppGlobalPut: interpreter.setGlobalState on the current app
GlobalPut(s, g, o) ==
  LET p == CurrentAppId(g) IN
  IF ~AppExists(s, p) THEN Throw(s)
  ELSE Done([s EXCEPT !.createdApps[s.globalApps[p]][p][o.key] = o.val])

\* AppLocalPut: setLocalState on account 0 (the sender); not opted in throws
LocalPut(s, g, o) ==
  LET p == CurrentAppId(g)
      a == CtxTx(g).from
  IN IF p \notin Apps \/ s.local[a][p] = NONE THEN Throw(s)
     ELSE Done([s EXCEPT !.local[a][p][o.key] = o.val])

RunStateful(s, g, o) ==
  LET w == CASE o.eff = "global" -> GlobalPut(s, g, o)
             [] o.eff = "local"  -> LocalPut(s, g, o)
             [] OTHER            -> Done(s)
  IN Then(w, LAMBDA s1 : CASE o.verdict = "accept" -> Done(s1)
                           [] o.verdict = "logic"  -> [code |-> "logic", st |-> s1]
                           [] OTHER                -> Throw(s1))

(***************************************************************************)
(* Ctx operations.                                                         *)
(***************************************************************************)
\* fault: the close-out credits the close-to account but keeps the sender's balance
TransferAlgoNoZero(s, t) ==
  IF ~HasMinBalance(s, t.amt, t.from) THEN Throw(s)
  ELSE LET s2 == [[s EXCEPT !.bal[t.from] = @ - t.amt] EXCEPT !.bal[t.to] = @ + t.amt]
       IN IF t.close = NoAddr THEN Done(s2)
          ELSE Done([s2 EXCEPT !.bal[t.close] = @ + s2.bal[t.from]])

\* Ctx.transferAlgo
TransferAlgo(s, t) ==
  IF ~HasMinBalance(s, t.amt, t.from) THEN Throw(s)
  ELSE LET s1 == [s EXCEPT !.bal[t.from] = @ - t.amt]
           s2 == [s1 EXCEPT !.bal[t.to] = @ + t.amt]
       IN IF t.close = NoAddr THEN Done(s2)
          ELSE LET s3 == [s2 EXCEPT !.bal[t.close] = @ + s2.bal[t.from]]
               IN Done([s3 EXCEPT !.bal[t.from] = 0])

\* fault: the asset close-out keeps the sender's units
TransferAssetNoZero(s, t) ==
  LET x == t.asset IN
  IF s.hold[t.from][x] = NONE \/ s.hold[t.to][x] = NONE THEN Throw(s)
  ELSE IF s.hold[t.from][x].frozen \/ s.hold[t.to][x].frozen THEN Throw(s)
  ELSE IF s.hold[t.from][x].amount - t.amt < 0 THEN Throw(s)
  ELSE LET s2 == [[s EXCEPT !.hold[t.from][x].amount = @ - t.amt]
                     EXCEPT !.hold[t.to][x].amount = @ + t.amt]
       IN IF t.close = NoAddr THEN Done(s2)
          ELSE IF s2.hold[t.close][x] = NONE THEN Throw(s2)
          ELSE Done([s2 EXCEPT !.hold[t.close][x].amount = @ + s2.hold[t.from][x].amount])

\* Ctx.transferAsset
TransferAsset(s, t) ==
  LET x == t.asset IN
  IF s.hold[t.from][x] = NONE \/ s.hold[t.to][x] = NONE THEN Throw(s)
  ELSE IF s.hold[t.from][x].frozen \/ s.hold[t.to][x].frozen THEN Throw(s)
  ELSE IF s.hold[t.from][x].amount - t.amt < 0 THEN Throw(s)
  ELSE LET s1 == [s EXCEPT !.hold[t.from][x].amount = @ - t.amt]
           s2 == [s1 EXCEPT !.hold[t.to][x].amount = @ + t.amt]
       IN IF t.close = NoAddr THEN Done(s2)
          ELSE IF s2.hold[t.close][x] = NONE THEN Throw(s2)
          ELSE LET s3 == [s2 EXCEPT !.hold[t.close][x].amount = @ + s2.hold[t.from][x].amount]
               IN Done([s3 EXCEPT !.hold[t.from][x].amount = 0])

\* Ctx.getAssetDef: assetDefs entry and the creator's created-asset params
AssetDefined(s, x) ==
  s.assetDefs[x] # NONE /\ s.createdAssets[s.assetDefs[x]][x] # NONE
AssetDef(s, x) == s.createdAssets[s.assetDefs[x]][x]

\* Ctx.getAssetAccount: the creator recorded in assetDefs
AssetAccountDefined(s, x) == s.assetDefs[x] # NONE

\* StoreAccount.modifyAsset: role addresses once non-zero are never reset to
\* the zero address; the four roles are replaced by the given fields
AccountModifyAsset(s, c, x, flds) ==
  IF s.createdAssets[c][x] = NONE THEN Throw(s)
  ELSE IF \E r \in Roles : s.createdAssets[c][x][r] # NoAddr /\ flds[r] = NoAddr THEN Throw(s)
  ELSE Done([s EXCEPT !.createdAssets[c][x] =
               [r \in DOMAIN @ |-> IF r \in Roles THEN flds[r] ELSE @[r]]])

\* Ctx.modifyAsset
ModifyAsset(s, x, flds) ==
  IF ~AssetAccountDefined(s, x) THEN Throw(s)
  ELSE AccountModifyAsset(s, s.assetDefs[x], x, flds)

\* StoreAccount.setFreezeState: the account must hold the asset
SetFreezeState(s, a, x, st) ==
  IF s.hold[a][x] = NONE THEN Throw(s)
  ELSE Done([s EXCEPT !.hold[a][x].frozen = st])

\* Ctx.freezeAsset
FreezeAsset(s, x, tgt, st) == SetFreezeState(s, tgt, x, st)

\* fault: no check that the target holds the amount
RevokeAssetNoAmountCheck(s, rcpt, x, tgt, amt) ==
  IF s.hold[tgt][x] = NONE \/ s.hold[rcpt][x] = NONE THEN Throw(s)
  ELSE Done([[s EXCEPT !.hold[tgt][x].amount = @ - amt] EXCEPT !.hold[rcpt][x].amount = @ + amt])

\* Ctx.revokeAsset: holdings of target and recipient, no frozen check
RevokeAsset(s, rcpt, x, tgt, amt) ==
  IF s.hold[tgt][x] = NONE \/ s.hold[rcpt][x] = NONE THEN Throw(s)
  ELSE IF s.hold[tgt][x].amount - amt < 0 THEN Throw(s)
  ELSE LET s1 == [s EXCEPT !.hold[tgt][x].amount = @ - amt]
       IN Done([s1 EXCEPT !.hold[rcpt][x].amount = @ + amt])

\* StoreAccount.destroyAsset: the creator must hold the whole supply
AccountDestroyAsset(s, c, x) ==
  IF s.createdAssets[c][x] = NONE THEN Throw(s)
  ELSE IF s.hold[c][x] = NONE \/ s.hold[c][x].amount # s.createdAssets[c][x].total THEN Throw(s)
  ELSE Done([s EXCEPT !.createdAssets[c][x] = NONE])

\* fault: only the creator's holding is dropped
DestroyAssetCreatorOnly(s, x) ==
  IF ~AssetAccountDefined(s, x) THEN Throw(s)
  ELSE Then(AccountDestroyAsset(s, s.assetDefs[x], x),
            LAMBDA s1 : Done([s1 EXCEPT !.hold[s.assetDefs[x]][x] = NONE]))

\* Ctx.destroyAsset: destroy at the creator, then drop every holding;
\* state.assetDefs is left as it is
DestroyAsset(s, x) ==
  IF ~AssetAccountDefined(s, x) THEN Throw(s)
  ELSE Then(AccountDestroyAsset(s, s.assetDefs[x], x),
            LAMBDA s1 : Done([s1 EXCEPT !.hold = [a \in Addr |-> [@[a] EXCEPT ![x] = NONE]]]))

\* StoreAccount.deleteApp: remove the app (and its global state) from the creator
AccountDeleteApp(s, c, p) ==
  IF s.createdApps[c][p] = NONE THEN Throw(s)
  ELSE Done([s EXCEPT !.createdApps[c][p] = NONE])

\* fault: the app stays in globalApps
DeleteAppNoUnregister(s, p) ==
  IF s.globalApps[p] = NONE THEN Throw(s) ELSE AccountDeleteApp(s, s.globalApps[p], p)

\* Ctx.deleteApp: the local states of opted-in accounts are left as they are
DeleteApp(s, p) ==
  IF s.globalApps[p] = NONE THEN Throw(s)
  ELSE Then(AccountDeleteApp(s, s.globalApps[p], p),
            LAMBDA s1 : Done([s1 EXCEPT !.globalApps[p] = NONE]))

\* StoreAccount.closeApp: remove the account's local state of the app
AccountCloseApp(s, a, p) ==
  IF s.local[a][p] = NONE THEN Throw(s)
  ELSE Done([s EXCEPT !.local[a][p] = NONE])

\* Ctx.closeApp: the app must exist
CloseApp(s, a, p) ==
  IF ~AppExists(s, p) THEN Throw(s) ELSE AccountCloseApp(s, a, p)

(***************************************************************************)
(* The switch of Ctx.processTransactions.                                  *)
(***************************************************************************)
\* fault: a clear program rejected by logic leaves the local state in place
ClearCallKeepsOnReject(s, g, t, o) ==
  IF ~AppExists(s, t.app) THEN Throw(s)
  ELSE LET r == RunStateful(s, g, o) IN
       IF r.code = "logic" THEN Done(r.st)
       ELSE Then(r, LAMBDA s1 : CloseApp(s1, t.from, t.app))

\* ClearSSC: the local state goes on acceptance and on rejection by logic
ClearCall(s, g, t, o) ==
  IF ~AppExists(s, t.app) THEN Throw(s)
  ELSE LET r == RunStateful(s, g, o) IN
       IF r.code = "logic" THEN CloseApp(r.st, t.from, t.app)
       ELSE Then(r, LAMBDA s1 : CloseApp(s1, t.from, t.app))

\* the lifecycle effect applied after an accepting approval program
AppEffect(s, t) ==
  CASE t.type = "noop"     -> Done(s)
    [] t.type = "closeout" -> CloseApp(s, t.from, t.app)
    [] t.type = "delete"   -> DeleteApp(s, t.app)

\* CallNoOpSSC, CloseSSC, DeleteSSC: a logic rejection rejects the group
ApprovalCall(s, g, t, o) ==
  IF ~AppExists(s, t.app) THEN Throw(s)
  ELSE LET r == RunStateful(s, g, o) IN
       IF r.code = "logic" THEN Throw(r.st) ELSE Then(r, LAMBDA s1 : AppEffect(s1, t))

\* the asset role that authorises each asset configuration call
RoleOf(ty) ==
  CASE ty \in {"modify", "destroy"} -> "manager"
    [] ty = "freeze"               -> "freeze"
    [] ty = "revoke"               -> "clawback"

\* the Ctx method each asset configuration call ends in
AssetEffect(s, t) ==
  CASE t.type = "modify"  -> ModifyAsset(s, t.asset, t.fields)
    [] t.type = "freeze"  -> FreezeAsset(s, t.asset, t.target, t.state)
    [] t.type = "revoke"  -> RevokeAsset(s, t.to, t.asset, t.target, t.amt)
    [] t.type = "destroy" -> DestroyAsset(s, t.asset)

\* fault: the role of the sender is not checked
RoleCallNoCheck(s, t) ==
  IF ~AssetDefined(s, t.asset) THEN Throw(s) ELSE AssetEffect(s, t)

\* ModifyAsset, FreezeAsset, RevokeAsset, DestroyAsset: getAssetDef, then
\* the sender must hold the authorising role
RoleCall(s, t) ==
  IF ~AssetDefined(s, t.asset) THEN Throw(s)
  ELSE IF AssetDef(s, t.asset)[RoleOf(t.type)] # t.from THEN Throw(s)
  ELSE AssetEffect(s, t)

Dispatch(s, g, t, o) ==
  CASE t.type = "pay"   -> TransferAlgo(s, t)
    [] t.type = "axfer" -> TransferAsset(s, t)
    [] t.type = "clear" -> ClearCall(s, g, t, o)
    [] t.type \in {"noop", "closeout", "delete"} -> ApprovalCall(s, g, t, o)
    [] t.type \in {"modify", "freeze", "revoke", "destroy"} -> RoleCall(s, t)

\* One iteration of the forEach of Ctx.processTransactions, for the last
\* transaction t of g: fee, signature-kind check, logic signature, payload
ProcessTransaction(s, g, t, o) ==
  Then(DeductFee(s, t),
    LAMBDA s1 : IF Ambiguous(t) THEN Throw(s1)
                ELSE Then(IF t.sign = "lsig" THEN ValidateLsigAndRun(s1, t, o) ELSE Done(s1),
                          LAMBDA s2 : Dispatch(s2, g, t, o)))

(***************************************************************************)
(* Actions.                                                                *)
(***************************************************************************)
\* a group starts (spec 4.6): the transient context ctx.state is a deep
\* copy of the store, the group is empty.  No code under src/ constructs a
\* Ctx, so this driver of processTransactions follows the spec
BeginGroup ==
  /\ phase = "idle"
  /\ phase' = "running"
  /\ ctx' = store
  /\ UNCHANGED <<store, group>>

\* the next transaction of the group is processed without an exception
ProcessTxn(t, o) ==
  LET g == Append(group, t)
      r == ProcessTransaction(ctx, g, t, o)
  IN /\ phase = "running"
     /\ Len(group) < MaxGroupSize
     /\ r.code = "ok"
     /\ ctx' = r.st
     /\ group' = g
     /\ UNCHANGED <<store, phase>>

\* the transaction throws: the group rejects and its transient context is
\* discarded (spec 4.6, section 5)
RejectTxn(t, o) ==
  LET r == ProcessTransaction(ctx, Append(group, t), t, o)
  IN /\ phase = "running"
     /\ Len(group) < MaxGroupSize
     /\ r.code # "ok"
     /\ ctx' = store
     /\ group' = <<>>
     /\ phase' = "idle"
     /\ UNCHANGED store

\* every transaction of the group succeeded: the transient context replaces
\* the store (spec 4.6 step 4)
CommitGroup ==
  /\ phase = "running"
  /\ Len(group) > 0
  /\ store' = ctx
  /\ group' = <<>>
  /\ phase' = "idle"
  /\ UNCHANGED ctx

\* Runtime.optIntoASA: an account opts in to a live asset with a zero holding
CanOptIntoASA(s, a, x) ==
  /\ AssetDefined(s, x)
  /\ s.hold[a][x] = NONE
OptedIntoASA(s, a, x) == [s EXCEPT !.hold[a][x] = [amount |-> 0, frozen |-> FALSE]]

OptInASA(a, x) ==
  /\ phase = "idle"
  /\ CanOptIntoASA(store, a, x)
  /\ store' = OptedIntoASA(store, a, x)
  /\ UNCHANGED <<ctx, group, phase>>

\* Runtime.optInToApp: getApp finds the app, its approval program runs and
\* accepts, and the account gets an empty local state (opting in again is
\* a no-op).  The program is taken to write nothing: one that rejects
\* changes nothing here, and AppRuntime models the writes and the stale
\* ctx.state they go to.
CanOptInToApp(s, a, p) ==
  /\ AppExists(s, p)
  /\ s.local[a][p] = NONE
OptedInToApp(s, a, p) == [s EXCEPT !.local[a][p] = EmptyKV]

OptInApp(a, p) ==
  /\ phase = "idle"
  /\ CanOptInToApp(store, a, p)
  /\ store' = OptedInToApp(store, a, p)
  /\ UNCHANGED <<ctx, group, phase>>

(***************************************************************************)
(* Initial world: every account has InitBalance; Creator created every     *)
(* asset (all roles Creator, holding the whole supply) and every app; no   *)
(* other account holds or opted in to anything.                            *)
(***************************************************************************)
InitState ==
  [bal |-> [a \in Addr |-> InitBalance],
   hold |-> [a \in Addr |-> [x \in AssetIds |->
              IF a = Creator THEN [amount |-> Supply, frozen |-> FALSE] ELSE NONE]],
   createdAssets |-> [a \in Addr |-> [x \in AssetIds |->
              IF a = Creator
              THEN [total |-> Supply, manager |-> Creator, reserve |-> Creator,
                    freeze |-> Creator, clawback |-> Creator]
              ELSE NONE]],
   assetDefs |-> [x \in AssetIds |-> Creator],
   createdApps |-> [a \in Addr |-> [p \in Apps |-> IF a = Creator THEN EmptyKV ELSE NONE]],
   globalApps |-> [p \in Apps |-> Creator],
   local |-> [a \in Addr |-> [p \in Apps |-> NONE]],
   paid |-> 0]

Init ==
  /\ store = InitState
  /\ ctx = InitState
  /\ group = <<>>
  /\ phase = "idle"

Next ==
  \/ BeginGroup
  \/ \E t \in TxnSet : \E o \in Outcomes(t) : ProcessTxn(t, o) \/ RejectTxn(t, o)
  \/ CommitGroup
  \/ \E a \in Addr, x \in AssetIds : OptInASA(a, x)
  \/ \E a \in Addr, p \in Apps : OptInApp(a, p)

Spec == Init /\ [][Next]_vars

(***************************************************************************)
(* Properties.                                                             *)
(***************************************************************************)
TypeOK ==
  /\ StateOK(store) /\ StateOK(ctx)
  /\ group \in Seq(TxnSet)
  /\ Len(group) <= MaxGroupSize
  /\ phase \in {"idle", "running"}

\* microAlgos in accounts plus fees paid; asset units held
TotalAlgo(s) == SumFunction(s.bal) + s.paid
Units(s, x) == SumFunction([a \in Addr |-> IF s.hold[a][x] = NONE THEN 0 ELSE s.hold[a][x].amount])
InitialAlgo == SumFunction(InitState.bal)

\* Invariant 1 of the world state: deleteApp removes an app from globalApps
\* and from its creator's created apps together, so every registered app is
\* found at its creator.
AppRegistryConsistent ==
  \A p \in Apps : store.globalApps[p] # NONE => store.createdApps[store.globalApps[p]][p] # NONE

\* Invariants 2 and 4: the registries agree with what they index.  Every
\* asset in assetDefs is found among its creator's created assets
\* (Ctx.destroyAsset must not leave a dangling assetDefs entry), and an
\* account is opted in to an app only while the app exists (DeleteSSC would
\* have to drop the local states of the opted-in accounts).
RegistriesConsistent ==
  /\ \A x \in AssetIds : store.assetDefs[x] # NONE => store.createdAssets[store.assetDefs[x]][x] # NONE
  /\ \A a \in Addr, p \in Apps : store.local[a][p] # NONE => AppExists(store, p)

\* Invariant 3: a committed holding is always of a live asset; destroyAsset
\* must drop the holdings of every account, not only the creator's.
HoldingsOfLiveAssets ==
  \A a \in Addr, x \in AssetIds : store.hold[a][x] # NONE => AssetDefined(store, x)

\* No group creates microAlgos: transfers, close-outs and fees only move or
\* burn them, whatever the aliasing of sender, receiver and close-to account.
NoAlgoMinted == TotalAlgo(store) <= InitialAlgo

\* No group creates asset units: transfers, close-outs and revocations of
\* transferAsset and revokeAsset only move them.
NoAssetMinted == \A x \in AssetIds : Units(store, x) <= Supply

\* Conservation: microAlgos and the units of a live asset are never lost;
\* they stay in accounts or, for microAlgos, are paid as fees.  It fails if
\* a close-out of transferAlgo or transferAsset can destroy a balance or a
\* holding, whatever the aliasing of sender, receiver and close-to account.
ValueConserved ==
  /\ TotalAlgo(store) = InitialAlgo
  /\ \A x \in AssetIds : AssetDefined(store, x) => Units(store, x) = Supply

\* A step of processTransactions that processed a transaction without error
TxnStep == phase' = "running" /\ Len(group') = Len(group) + 1

\* Only the sender of a transaction loses microAlgos by it, and only the
\* sender, the revocation target of the asset's clawback, or the holders of
\* an asset its manager destroys lose asset units by it.
NoUnauthorizedDebit ==
  [][TxnStep => LET t == group'[Len(group')] IN
      /\ \A a \in Addr : ctx'.bal[a] < ctx.bal[a] => a = t.from
      /\ \A a \in Addr, x \in AssetIds :
           LET before == IF ctx.hold[a][x] = NONE THEN 0 ELSE ctx.hold[a][x].amount
               after  == IF ctx'.hold[a][x] = NONE THEN 0 ELSE ctx'.hold[a][x].amount
           IN after < before =>
                \/ a = t.from
                \/ t.type = "revoke" /\ a = t.target /\ AssetDef(ctx, x).clawback = t.from
                \/ t.type = "destroy" /\ AssetDef(ctx, x).manager = t.from]_vars

\* The minimum balance holds step by step through a group: the fee of each
\* transaction (deductFee) and then its payment (transferAlgo) are checked
\* against ctx as the earlier transactions of the group left it, so no
\* processed transaction takes an account that had its minimum balance to a
\* balance between 0 and its minimum.  Only a close-out (closeRemainderTo)
\* may leave it below, at 0.
MinBalanceKept ==
  [][TxnStep => \A a \in Addr :
        ctx.bal[a] >= MinBalance(ctx, a) /\ ctx'.bal[a] # 0 => ctx'.bal[a] >= MinBalance(ctx', a)]_vars

\* ClearSSC always frees the sender's local state: in every committed group
\* each clear call has left the sender's local state of that app removed,
\* also when the clear program rejected (error 1007).
ClearAlwaysFrees ==
  [][CommitGroup =>
      \A i \in DOMAIN group :
        group[i].type = "clear" => store'.local[group[i].from][group[i].app] = NONE]_vars

\* A program run by an app call writes the global state of that call's own
\* app only (the interpreter reads the app of ctx.tx).
ProgramWritesOwnApp ==
  [][TxnStep => LET t == group'[Len(group')] IN
      \A p \in Apps : AppExists(ctx, p) /\ AppExists(ctx', p) /\ GlobalStateOf(ctx', p) # GlobalStateOf(ctx, p)
                        => t.type \in AppTypes /\ t.app = p]_vars
====
