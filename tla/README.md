# TLA+ models of the algorand-builder runtime

This directory holds TLA+ models of `packages/runtime` of algorand-builder.
That package is an in-process emulator of the Algorand ledger for tests:
a TEAL stack interpreter, and a transaction engine that applies groups of
transactions to an in-memory world state. The models are checked with TLC.

## 1. The system

| Part | Source | What it keeps / does |
|------|--------|----------------------|
| Transaction engine (`Ctx`) | `packages/runtime/src/index.ts` 97-465 | Works on `ctx.state`, a deep copy of the world state. `processTransactions` runs a group in a loop. For each transaction it deducts the fee, rejects ambiguous signing, and validates and runs a logic signature. It then dispatches on the type: pay, asset transfer, app NoOp/CloseOut/Clear/Delete, and asset modify/freeze/revoke/destroy. |
| Runtime | `interpreter/opcode-list.ts` 2593-3133 (the `Runtime` class) | Holds the canonical `store`. `executeTx` deep-copies it into `ctx.state`, sets `ctx.tx` to the group's first transaction, and runs the program of every app call on the copy. If none throws, `updateFinalState` makes the copy the store and then applies the payments (`transferAlgo`) and app deletions to it. The first exception drops the copy. It also has app create/opt-in/update/delete outside groups. It never constructs a `Ctx`. |
| TEAL opcodes | `interpreter/opcode-list.ts` 1-2592 | About 70 opcode classes. Each has `execute(stack)`: arithmetic with overflow checks, byte and bit operations, transaction and global fields, app state get/put/del. |
| Account store | not under `src/` (only `algorand-js/src/runtime/account.ts`, an older copy) | Balance, asset holdings, app local states, created apps (with their global state) and created assets. Also the minimum balance, and the `modifyAsset`, `setFreezeState`, `destroyAsset`, `deleteApp` and `closeApp` operations. |
| algorand-js Runtime | `packages/algorand-js/src/runtime/runtime.ts` | The older runtime: an async `executeTx` that runs the program of the first transaction on `this.ctx` (a deep copy of `this.store`), awaits, then commits `this.ctx.state` and applies the payments to `this.accounts`. |
| ASA loader | `index.ts` 20-83 | Validates an asset-definition file. |
| algob / builder | `packages/algob`, `packages/builder` | CLI and deployer talking to a network node. |

How they interact:

1. A test calls `Runtime.executeTx(group)`.
2. The runtime deep-copies the store into `ctx.state` and, for each app call, calls `run` on its approval or clear program, which creates an `Interpreter`.
3. That interpreter's opcodes read `runtime.ctx.tx` (always the first transaction) and `ctx.state`.
4. State the programs write goes to `ctx.state`; `updateFinalState` commits it and then moves the payments and deletes the apps on the store.
5. `Ctx.processTransactions` (index.ts) is the fuller engine of spec 4.6, with fees, assets and checks. Nothing under `src/` constructs a `Ctx`, so the group driver around it is taken from the spec.

## 2. Modules

### `TxnEngine.tla`: the engine `Ctx` under the spec's group driver

**State.** The state is `store` and `ctx`, each a world-state record:

- `bal`: microAlgos per account;
- `hold`: per account, per asset, a holding or `NONE`;
- `createdAssets`: the asset params at the creator;
- `assetDefs`: asset id to creator;
- `createdApps`: the app's global key/value state, kept at the creator;
- `globalApps`: app id to creator;
- `local`: per account, per app, a local key/value state or `NONE`;
- `paid`: the total fees deducted, a history field.

Two more variables follow the group:

- `group` holds the transactions of the running group processed so far;
- `phase` is `idle` or `running`.

**Actions.**

| Action | Code |
|--------|------|
| `BeginGroup` | spec 4.6: the group runs on a transient copy of `store` (spec-modelled) |
| `ProcessTxn(t, o)` | one iteration of the `forEach` of `processTransactions`, ending without exception |
| `RejectTxn(t, o)` | the same iteration throwing; spec 4.6: the transient context is discarded (spec-modelled) |
| `CommitGroup` | spec 4.6 step 4: every transaction passed, the copy becomes `store` (spec-modelled) |
| `OptInASA` | an opt-in to an asset between groups, on `store` (spec-modelled: no `optIntoASA` is under `src/`) |
| `OptInApp` | `Runtime.optInToApp` (opcode-list.ts 2912-2925) on `store`: `getApp` must find the app and the account must not be opted in; the approval program is taken to accept and write nothing, since `AppRuntime` models its writes |

The transaction `t` is chosen from `TxnSet` when the group reaches it. `o` says what its programs do.

Each handler is an operator `State -> [code, st]`. The result keeps the state at the point of a throw. `Then` chains the early returns in the code's order. Sequential `EXCEPT`s keep JavaScript's object aliasing: the sender and the close-to account may be one account, and so may the sender and the receiver.

**Programs** are abstracted. A stateful run may put key `k := v` in the global state of the *current app*, or in the local state of *account 0*. It then accepts, rejects by logic (error 1007), or fails with another error. The current app and account 0 are read from `ctx.tx`, as `AppGlobalPut`/`AppLocalPut` do. `ctx.tx` is `gtxs[0]` (index.ts:372). A logic signature accepts or rejects, and must be for the sender.

**From the spec.** The account-level operations come from the spec, because that code is not under `src/`:

- the minimum balance: base plus one unit per holding or opt-in;
- `modifyAsset`, where non-zero roles may not become zero;
- `setFreezeState`, `destroyAsset` (the creator must hold the whole supply), `deleteApp` and `closeApp`;
- the opt-in to an asset.

`PROJECT.json` marks them `spec_modelled`.

`MC_TxnEngine.tla` instantiates `TxnEngine` with the following:

- accounts `a1` (creator of asset 1 and of apps 1 and 2, holding the supply of 2) and `a2`;
- balances of 4, fee 1, base minimum 1, 1 per opt-in;
- groups of at most 2.

`TxnSet` has the calls that reach each branch:

- a plain payment, a payment closing to the receiver and one closing to the sender;
- a good logic-signature payment, a logic signature of the wrong account, and an ambiguous one;
- transfers, including a close-out to the sender and one to a frozen account;
- freezes, revocations by the clawback and by a non-clawback;
- three ModifyAsset calls: keep the roles, hand the manager to `a2`, and blank the reserve, which is refused;
- destroy;
- each of the four app-call kinds on each app from `a2`.

Balances fall with every fee, so every behaviour is finite.

### `TealSpec.tla` and `TealOps.tla`: the TEAL stack machine

**`TealSpec`** is what a program means, per spec 4.1 and 4.3. The stack, the scratch slots and the bytecblock hold *values*: a uint of `W` bits or a byte string. `Exec(ins)` pops an instruction's operands and pushes its results, or it rejects the program: on a failing check, on a pop from too short a stack, or on a push past `StackLimit`. Nothing here is taken from the code.

**`TealOps`** is the code: one operator per opcode class of `opcode-list.ts` (`Add`, `Sub`, `Mul`, `Div`, `Mod`, the comparisons, `And`/`Or`/`Not` (named `LogicalAnd`, `LogicalOr`, `LogicalNot`), the bitwise ops, `==`/`!=`, `len`, `itob`/`btoi`, `addw`, `mulw`, `concat`, `substring`/`substring3`, `assert`, `pop`, `dup`, `dup2`, `swap`, `dig`, `select`, `setbit`/`getbit`, `setbyte`/`getbyte`), plus the constants `int`, `pushint`, `intc`, `byte`, `pushbytes` and `bytec`, `load`, `store`, `err`, and the control opcodes `b`, `bz`, `bnz` and `return` in `Execute`. A branch is modelled by its stack effect: `bz`/`bnz` pop a uint (a byte string rejects) and `b` pops nothing; where it jumps is left out, since the properties are about values, not about which instruction runs next. `return` keeps its popped value as the whole stack and ends the program (`status` = `done`).

The application state opcodes `app_global_get`, `app_global_get_ex`, `app_global_put`, `app_global_del`, `app_local_get`, `app_local_get_ex`, `app_local_put`, `app_local_del` and `app_opted_in` work on two more variables: `gstate`, the global state of `ctx.tx.apid`, and `lstate`, the sender's local state for it, which exists when `optedin` holds. Each is a map from a key's bytes to a value. The operators follow each `execute`: the pops and type checks in the code's order, and `if (val)` on what the store returned, so a stored uint 0 counts as missing (`Truthy`). The store's own helpers (`getGlobalState`/`setGlobalState` of the Interpreter, `getLocalState`/`setLocalState` of the account, `getAccount`) are not under `src/` and follow the spec (`spec_modelled` in PROJECT.json):
- keys compare by content;
- a value is stored as a value, not as the popped `Uint8Array`;
- a put past the schema (`GlobalSchema`, `LocalSchema`: a number of uints and of byte slices) or to an account that has not opted in throws;
- `Txn.Accounts` and `Txn.ForeignApps` are empty, so account index 0 (the sender) and app index 0 (the called app) are the only valid ones.

The transaction and account reads `txn`, `txna`, `gtxn`, `gtxna`, `gtxns`, `gtxnsa`, `global`, `balance`, `min_balance`, `asset_holding_get` and `arg` read constants. `Gtxs` is the group, with each transaction a record of field values. `CurTx` is the position of `ctx.tx`; for an app call it is the first transaction (index.ts:372). `Args` holds the logic signature's arguments. `Sender` holds the sender's balance, minimum balance and asset holdings. Each operator follows its class's `execute`:
- the group index passes `assertUint8`, then `checkIndexBound`;
- `gtxns`/`gtxnsa` pop the index and assert it is a bigint;
- `asset_holding_get` pushes 0, 0 when the sender does not hold the asset;
- `global` computes `GroupSize` and `CurrentApplicationID`.

`txnSpecbyField` and `txAppArg` (`lib/txn.ts`) are not under `src/`, so they follow spec 4.3 and 4.5: `GroupIndex` is the position in the group, `FirstValidTime` fails, `Accounts` index 0 is the sender, and array indexes are bounds-checked. A field's bytes are parsed into a new `Uint8Array`. `arg`, however, pushes `ctx.args[i]` itself, so the model keeps the arguments in heap cells after the bytecblock, as it does for `bytec`.

`TealSpec` has the same state as `vglobal`, `vlocal` and `optedin`, with the meaning of spec 4.3: a `get` pushes the value or 0, a `get_ex` pushes the value (0 when missing) and a did_exist flag, and a put checks the schema. Each follows its `execute`: the checks in the code's order, the bigint arithmetic, `toString(2)`/`padStart`/`parseBinaryStrToBigInt` for `setbit`/`getbit` on uints, and `encodeUint64`/`decodeUint64` as big-endian conversions.

A `Uint8Array` is an object shared by reference, and the model keeps that:

- a byte string on the stack, in a scratch slot or in the bytecblock is a reference into `heap`;
- `dup`, `dup2`, `dig`, `load` and `bytec` copy the reference;
- `pushbytes`, `itob`, `concat` and `substring` allocate a new cell (the lowest free one);
- `setbit` and `setbyte` write the popped cell in place;
- cells nothing refers to any more are reclaimed.

`Step(ins)` is one turn of the interpreter loop: `assertMinStackLen`, then `execute`, then the pushes. A throw sets `status` to `rejected`, and the program stops there.

The refinement mapping reads every reference through the heap (`Val`). `ImplementsTealSpec` is `TS!Spec /\ []RejectsAsSpecified`. The first conjunct checks that every code step is a spec step. Since `err` is a spec step that rejects, that alone would let any wrongful throw pass. `RejectsAsSpecified` therefore checks, in every reachable running state, that each instruction of the run's set throws exactly when `TS!Rejects` says the spec rejects it. `MC_TealOps` takes `W = 8`, so itob/btoi use one byte and 255 is `MAX_UINT64`. Overflow, carry (255+1, 255*255) and the limits are then reached in a few steps:

- `MaxConcat = 2`, `StackLimit = 3`, one scratch slot, a bytecblock of one constant, and one logic signature argument;
- a group of two transactions, the program running for the first, whose `Accounts` is empty, while the second's `Accounts` names the first's sender; the sender holds frozen units of asset 1, so `asset_holding_get` of asset 1 finds a holding and of asset 0 does not;
- programs of up to 6 instructions (7 in `teal_inplace`, so that a local put can be followed by a local get or del);
- a global schema of one uint and no byte slice, and a local schema of one byte slice and no uint, so that a put of either type past its schema is a few instructions away; the sender starts opted in or not (`OptIns`), except in `teal_pure`, which has no app state opcodes;
- the reads are split between the two passing runs (`TxnReadInstrs` in `teal_pure`, `AcctReadInstrs` in `teal_inplace`), since all of them in one run takes TLC more than nine minutes;
- `NRefs` is large enough that allocation never blocks.

The instruction sets include the out-of-range immediates (`store 1`, `bytec 1`, `arg 1`, `gtxn 2`, `txna ApplicationArgs 1`, and group index 255 from the stack) and values of the wrong type. `DivergentInstrs` gathers the opcodes where the code and the spec part, for `v_TealDivergences`.

### `JsState.tla`, `JsAtomicRuntime.tla` and `JsRuntime.tla`: the async `executeTx` of algorand-js

`packages/algorand-js/src/runtime/runtime.ts` is the older runtime. Its `executeTx` is `async`. Up to its `await` it runs synchronously: `this.ctx = {state: cloneDeep(this.store), tx: txnParams[0]}`, and the program runs on `this.ctx.state`. After the `await`, `this.store = this.ctx.state` and `prepareFinalState(txnParams, this.accounts)` moves the balances.

- **`JsState`** holds what does not depend on timing. `UpdateGlobalState` writes first and checks the schema after, so a throw keeps the write in ctx. `UpdateBalance` follows the `switch` on the address (a self-payment only subtracts), and `PrepareFinalState` folds it over the transactions. `UpdateLocalState` is `updateLocalState` of the sender's account: `APP_NOT_FOUND` when the account has no local state for the app, otherwise the pair is set in place and the schema checked after, as for the global state. `InitialStore` is `initializeAccounts`: the store starts with every app's global state and the local states of the accounts in `OptedIn`. The program of a call (`RunProgram`) is abstracted as in the other modules: one global or local put for the app of `ctx.tx`, then accept or reject.
- **`JsAtomicRuntime`** is what a caller may expect: each call takes effect alone, all or nothing, at one instant (`Complete`) between `Invoke` and its return.
- **`JsRuntime`** is the code, split at the await: `ExecuteTx` (the synchronous part, which overwrites the runtime's one `this.ctx`), `Resume` (the code after the await, committing whatever `this.ctx` is then), and `Reject` (the await rethrows). `pc[i]` is where call i is. `Atomic` maps `pc` `awaiting`/`throwing` to `pending`, and `ImplementsAtomicExecuteTx == Atomic!Spec` is checked.

`MC_JsRuntime` has two accounts (balances 2 and 0, `a1` opted in to the app and `a2` not), one app, two keys, one value, global and local schemas of one key, and three calls. Each call picks one of five transaction lists (payments, a self-payment, an app call by `a1` or by `a2`, an app call followed by a payment) and one of six programs (no write, write k1 or k2 globally, write k1 and reject, write k1 or k2 locally). An app call by `a2` with a local write throws `APP_NOT_FOUND`. With `MaxPending = 1` every call is awaited before the next, as the package's tests do; with `MaxPending = 2` a second call may start while the first is suspended. Three calls let a second write exceed the schema and let a rejected call follow a pending one. The runs do not check deadlock: a test ends when its calls have returned.

### `AppRuntime.tla`: the app lifecycle of the `Runtime` class

This models the public methods of `Runtime` that a test calls: `addApp`, `optInToApp`, `updateApp`, `deleteApp`, and `executeTx` of a group of application calls (NoOp, CloseOut, ClearState, DeleteApplication) and payments. `ExecuteTx(g, os)` follows the code: `CtxTx` is `createTxnContext`'s `txns[0]`, `RunPrograms` runs each app call's program on the copy (getProgram throws for an app not in `programMap`), and `FinalState` is `updateFinalState`'s loop after `store = ctx.state`: `StoreTransferAlgo` for a payment (no balance, minimum-balance or fee check; debit, then credit, of what may be one object) and `deleteApp` for a DeleteApplication, which throws `APP_NOT_FOUND` for an app the group deleted already and leaves the store as far as the loop got.

**State.** `rt` holds the two views of the world: `store` (`sa`, `sga`: accounts and `globalApps`) and `ctx.state` (`ca`, `cga`). In JavaScript these are objects, and the methods share them:

- `executeTx` deep-copies the store into ctx (`al` all FALSE, `sh` FALSE);
- `updateFinalState` makes them one object (`sh` TRUE);
- `addApp` puts the store's account object of the sender into ctx (`al[s]` TRUE).

A write through one view (`StoreSetAcct`, `CtxSetAcct`, `StoreSetApp`, `CtxSetApp`) reaches the other exactly when the object is shared. The other variables are:

- `tx`, which is `ctx.tx`;
- `appCounter`;
- `programs`, the ids in `programMap`;
- `lastCall`, the method last called and whether it returned;
- `calls`, which bounds the test at `MaxCalls` calls.

**Programs.** A program is abstracted, as in `TxnEngine`: it puts one key of the global state of `ctx.tx.apid` or of the sender's local state, through `AppGlobalPut`/`AppLocalPut` on ctx, and then accepts or rejects. The account operations `addApp`, `optInToApp` and `deleteApp` of `StoreAccount` are not under `src/` and come from the spec's account store.

`MC_AppRuntime` takes two accounts with 2 microAlgos each, one key, `MaxApps = 2` and `MaxCalls = 4`. `TxnGroups` holds every single app call, a payment to another account and to oneself, a group deleting app 1 twice, a payment followed by a call, and two calls of different apps. The passing run has one value (`MCVal`), which keeps it under a minute; the violation runs have two, so that a lost write is visible. Four calls are enough for the longest scenario of interest: create, a failed call, then an opt-in or update on the stale ctx, then a call that reads it.

## 3. Runs

| Run | Expect | What it shows |
|-----|--------|---------------|
| `engine_safety` | pass | The eight properties below hold in all 334,160 reachable states. |
| `v_ValueConserved` | violation | A close-out to oneself destroys the balance (index.ts:210-211); `transferAsset` does the same to a holding (247-248). |
| `v_RegistriesConsistent` | violation | `destroyAsset` leaves `assetDefs` behind (spec invariant 2). The same property also covers invariant 4, which `deleteApp` breaks by leaving the local states of opted-in accounts. |
| `v_ProgramWritesOwnApp` | violation | The second app call of a group writes the first call's app, because `ctx.tx` stays `gtxs[0]`. |
| `teal_pure` | pass | `TypeOK` and `ImplementsTealSpec` over the arithmetic, logic, comparison, byte and stack opcodes, with the references dup/dig/load/bytec/arg copy (no opcode of this run writes in place, so sharing is exercised only in `teal_inplace`), the constants and control opcodes, and the `txn`/`txna`/`gtxn`/`gtxna` reads (68,242 states). |
| `teal_inplace` | pass | The same for `setbit`, `setbyte` and `getbyte` on uints and bytes, when no two entries share an array, together with the app state opcodes other than `get_ex`: their schema and opt-in checks, the global and local states staying within their schemas, and the `txn`/`gtxnsa`/`global`/`min_balance`/`asset_holding_get` reads, whose bytes `setbyte` may rewrite (148,240 states). |
| `v_TealDivergences` | violation | `pushint n; ~` leaves the negative bigint `-(n + 1)` on the stack (opcode-list.ts:451; TLC shows n = 0 or 1); the spec pushes `MAX_UINT64 - n`. The instruction set also holds five more disagreements, each reported by the same property once the shorter ones are taken out: `setbyte` rewrites the bytecblock constant `bytec` pushed (2402) and the argument `arg` pushed, so a later `arg` reads the rewritten bytes (212), `setbit` changes the scratch slot a `load` shares (2324), `getbit` of bit 1 of the uint 0 throws (2362), and `app_global_get_ex` of a key holding the uint 0 reports it missing (1761; `app_local_get_ex` at 1681 is the same). |
| `app_lifecycle` | pass | `TypeOK`, `LiveAppsRegistered` and `AlgosConserved` over all sequences of four `Runtime` calls, groups and payments included (80,865 states). |
| `v_RejectedCallsChangeNothing` | violation | An `addApp` whose program throws leaves app 0 in the store account (2858). |
| `v_SuccessfulWritesPersist` | violation | After a failed `executeTx`, `optInToApp` runs its program on the discarded ctx copy. The call succeeds, but its global write is lost (2920). |
| `js_awaited` | pass | With every `executeTx` awaited, the algorand-js runtime implements `JsAtomicRuntime`, and the store never holds a global or local state past its schema (55,861 states). |
| `v_ConcurrentExecuteTx` | violation | Call 1 (a payment) is suspended at its await; call 2 starts, writes k1 and rejects; call 1 resumes and commits call 2's `this.ctx`, so the rejected write is in the store (runtime.ts:223). |

The properties of `engine_safety`:

- `TypeOK`.
- `AppRegistryConsistent` (spec invariant 1).
- `HoldingsOfLiveAssets` (invariant 3: a destroy must drop the holdings of *every* account).
- `NoAlgoMinted`, `NoAssetMinted`: no sequence of close-outs, transfers and revocations creates value, even when accounts alias.
- `NoUnauthorizedDebit`, an action property. A step lowers only the sender's balance. Asset units leave only the sender, the target of the *current* clawback, or the holders of an asset the manager destroys. This reaches role changes by ModifyAsset earlier in the same group.
- `ClearAlwaysFrees`, an action property. In every committed group, each clear call has removed the sender's local state, including when the clear program rejected.
- `MinBalanceKept`, an action property. No processed transaction takes an account that had its minimum balance to a balance between 0 and that minimum. The code deducts each fee just before its own transaction's payload (index.ts:366), not all fees first as spec 4.6 says, and checks each fee and payment against `ctx` as the earlier transactions left it. A close-out may still zero an account that holds opt-ins, and a later payment to it is not checked against the receiver's minimum, so an account can sit between 0 and its minimum; the property leaves such accounts out, and hazard index.ts:212 records them. The property compares each step with the state before it, so it says nothing about the fee order itself.

The properties of the AppRuntime runs:

- `LiveAppsRegistered`: in the store, an app is in `globalApps` exactly when it has programs, and it is created at exactly the account `globalApps` names. Breaking it needs a create, a failed or committed call, and a delete in some order.
- `RejectedCallsChangeNothing` (action property): a call that throws leaves the store's accounts, `globalApps`, `programMap` and the counter as they were.
- `AlgosConserved`: the store's balances always sum to what the accounts started with. `updateFinalState`'s `transferAlgo` charges no fee and checks nothing, so only the debit and the credit of one payment, which may be one account, can break it.
- `SuccessfulWritesPersist` (action property): a call that returns normally, and whose program wrote a key, leaves that key in the store.

The properties of the algorand-js runs:

- `TypeOK` includes that every global state in the store is within the schema. It rests on the store only taking states of programs that returned.
- `ImplementsAtomicExecuteTx`: every step of the code is a step of `JsAtomicRuntime` under the mapping. A commit must be the caller's own program run on the state of that instant, and a thrown call must leave store and balances alone.

The properties of the TEAL runs:

- `TypeOK`: every uint is in `0..MAX` and no byte string is longer than `MAX_CONCAT_SIZE`. This rests on the overflow checks of `+`, `*`, `addw` and `mulw` and on the size check of `concat`. The app states hold TEAL values and stay within their schemas, which rests on the schema check of the puts.
- `ImplementsTealSpec`: under the mapping, each instruction does what the spec says and changes no value it did not pop (a lower stack entry, a scratch slot, a bytecblock constant), and in every state each instruction throws exactly when the spec rejects it (`RejectsAsSpecified`).

`MinBalanceHeld` (invariant 5) is not checked. A close-out leaves the sender in the state with balance 0, and neither the code nor its tests say whether such an account must then meet a minimum; PROJECT.json records it as a hazard. A close-out that credits a frozen holding (index.ts:243) is recorded as a hazard without a run. The fee order is also only a hazard: the code deducts each fee just before its own payload, while spec 4.6 deducts all fees first.

Each property has a mutant in `PROJECT.json`: a plausible fault in the mapped definition that TLC then catches.

## 4. Fairness

The engine is a synchronous loop, and a group either commits or throws in a bounded number of steps. The environment (which groups are submitted) is under no obligation, so `Spec` has no fairness. The same holds for `AppRuntime`, whose steps are calls a test may or may not make. `JsRuntime` has no fairness either. A suspended call is resumed by the event loop, but that a resumption eventually happens follows from nothing but that scheduling, so no liveness property is checked; all runs check safety and refinement only.

## 5. Not modelled (yet), and the plan

1. Several TEAL opcodes are left out:
   - the hashes and `ed25519verify`: pure functions of bytes, which a small-width model cannot compute meaningfully;
   - `addr`, an address decoding;
   - `global` fields read from the `GlobalFields` table, and `Round`, `LatestTimestamp` and `CreatorAddress`;
   - `asset_params_get`;
   - reads of accounts other than the sender: the current transaction's `Accounts` is empty;
   - `intcblock`/`bytecblock` as instructions: the blocks are loaded at `Init`.
2. `AppRuntime` does not model logic-signature transactions in `executeTx` (its groups are signed by secret key) or `createTxnContext`'s limit of 16 transactions (its groups have at most two). `TxnEngine` models `validateLsigAndRun` and `assertAmbiguousTxnParams` as `Ctx` calls them.
3. `TxnEngine`'s group driver is taken from spec 4.6, since nothing under `src/` constructs a `Ctx`; no abstract specification of it is checked.
4. The asset and opt-in operations of the algorand-js runtime, and its reads (`getGlobalState`, `getLocalState`, `getAccount` of an index other than 0); `JsRuntime` has global and local writes and payments.

The ASA file loader and the algob/builder CLI are I/O and are not modelled. The specification lists the script runner and checkpoint persistence as out-of-scope collaborators. The checkpoint helpers are also outside `src/`. So `runMultipleScripts` (builder `run.ts`) is not modelled, and its hazard is only recorded in PROJECT.json. That hazard: a script with an existing checkpoint `return`s from the whole loop, so the later scripts never run.
