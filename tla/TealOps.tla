------------------------------ MODULE TealOps ------------------------------
(***************************************************************************)
(* The TEAL stack machine of packages/runtime/src/interpreter/             *)
(* opcode-list.ts: the execute() of the stack, arithmetic, byte and bit    *)
(* opcodes, run on a program built one instruction at a time.              *)
(*                                                                         *)
(* A uint64 on the stack is a JavaScript bigint, a byte string a           *)
(* Uint8Array: an object shared by reference.  The model keeps that        *)
(* sharing: a byte string on the stack, in scratch or in the bytecblock is *)
(* a reference into heap, and dup, dig, load and bytec copy the reference. *)
(* The width of a uint is W bits (64 in the code; itob/btoi use W \div 8   *)
(* bytes), MAX_CONCAT_SIZE is MaxConcat and the stack limit StackLimit.    *)
(*                                                                         *)
(* Beside the code's semantics the module states the TEAL semantics of     *)
(* TealSpec gives the TEAL semantics of the spec over values; this module *)
(* is shown to implement it, reading each reference through the heap.     *)
(***************************************************************************)
EXTENDS Integers, Sequences, FiniteSets, Bitwise, Functions

CONSTANTS
  W,            \* bits of a uint (code: 64)
  MaxConcat,    \* MAX_CONCAT_SIZE (code: 4096)
  StackLimit,   \* maximum stack depth (code: 1000)
  ScratchSize,  \* scratch slots (code: 256)
  NRefs,        \* byte-array objects the heap can hold at once
  IntCBlock,    \* the program's intcblock, a sequence of uints
  ByteCBlock,   \* the program's bytecblock, a sequence of byte strings
  Instrs,       \* the instructions a program may consist of
  MaxSteps,     \* bound on the length of the program run
  AppId,        \* ctx.tx.apid, the app called
  GlobalSchema, \* [numUint, numByteSlice] of its global state
  LocalSchema,  \* and of a local state
  OptIns,       \* whether the sender may have opted in: a subset of BOOLEAN
  Gtxs,         \* ctx.gtxs: the group, each transaction a record of field values
  CurTx,        \* the position (1-based) of ctx.tx in the group
  Args,         \* ctx.args of a logic signature: byte strings
  Sender        \* the sender's account: balance, minBalance and asset holdings

ASSUME W % 8 = 0 /\ W > 0 /\ NRefs >= Len(ByteCBlock) + Len(Args)
\* getAccount and the app state opcodes see only account index 0
ASSUME CurTx \in DOMAIN Gtxs /\ Gtxs[CurTx].Accounts = <<>>

Refs == 1..NRefs

MAX == 2^W - 1
WordBytes == W \div 8
NoWrite == [r |-> 0, s |-> <<>>]

\* stack elements of the code: a bigint, or a reference to a Uint8Array
U(n) == [t |-> "u", v |-> n]
R(r) == [t |-> "r", v |-> r]
\* a Uint8Array the opcode allocates
Fresh(s) == [t |-> "new", v |-> s]
\* Op.assertBigInt / Op.assertBytes (interpreter/opcode, not under src/;
\* from the spec's tagged Value)
IsU(e) == e.t = "u"
IsB(e) == e.t = "r"

\* results of an execute(): the pushed elements and an in-place write
Ok(out) == [ok |-> TRUE, out |-> out, w |-> NoWrite]
OkWrite(out, r, s) == [ok |-> TRUE, out |-> out, w |-> [r |-> r, s |-> s]]
Fail == [ok |-> FALSE, out |-> <<>>, w |-> NoWrite]

\* big-endian bytes of n and back (algosdk encodeUint64 / decodeUint64)
RECURSIVE BigEndian(_, _)
BigEndian(n, k) == IF k = 0 THEN <<>> ELSE BigEndian(n \div 256, k - 1) \o <<n % 256>>
RECURSIVE FromBigEndian(_)
FromBigEndian(s) == IF s = <<>> THEN 0 ELSE FromBigEndian(SubSeq(s, 1, Len(s) - 1)) * 256 + s[Len(s)]

\* bigint.toString(2): the binary digits of n >= 0 without leading zeros
RECURSIVE Binary(_)
Binary(n) == IF n < 2 THEN <<n>> ELSE Binary(n \div 2) \o <<n % 2>>
\* padStart(k, "0")
PadStart(s, k) == [i \in 1..(k - Len(s)) |-> 0] \o s
\* parseBinaryStrToBigInt
RECURSIVE FromBinary(_)
FromBinary(s) == IF s = <<>> THEN 0 ELSE FromBinary(SubSeq(s, 1, Len(s) - 1)) * 2 + s[Len(s)]

(***************************************************************************)
(* execute() of the opcode classes.  in is the popped elements in stack    *)
(* order, in[Len(in)] the top (the code's "last"), h the heap.             *)
(***************************************************************************)
BothU(in) == IsU(in[1]) /\ IsU(in[2])
Bool(b) == IF b THEN U(1) ELSE U(0)

Add(in) == IF ~BothU(in) \/ in[1].v + in[2].v > MAX THEN Fail ELSE Ok(<<U(in[1].v + in[2].v)>>)
Sub(in) == IF ~BothU(in) \/ in[1].v - in[2].v < 0 THEN Fail ELSE Ok(<<U(in[1].v - in[2].v)>>)
\* (mutant) the product pushed without the overflow check
MulNoOverflowCheck(in) == IF ~BothU(in) THEN Fail ELSE Ok(<<U(in[1].v * in[2].v)>>)
Mul(in) == IF ~BothU(in) \/ in[1].v * in[2].v > MAX THEN Fail ELSE Ok(<<U(in[1].v * in[2].v)>>)
Div(in) == IF ~BothU(in) \/ in[2].v = 0 THEN Fail ELSE Ok(<<U(in[1].v \div in[2].v)>>)
Mod(in) == IF ~BothU(in) \/ in[2].v = 0 THEN Fail ELSE Ok(<<U(in[1].v % in[2].v)>>)
LessThan(in) == IF ~BothU(in) THEN Fail ELSE Ok(<<Bool(in[1].v < in[2].v)>>)
GreaterThan(in) == IF ~BothU(in) THEN Fail ELSE Ok(<<Bool(in[1].v > in[2].v)>>)
LessThanEqualTo(in) == IF ~BothU(in) THEN Fail ELSE Ok(<<Bool(in[1].v <= in[2].v)>>)
GreaterThanEqualTo(in) == IF ~BothU(in) THEN Fail ELSE Ok(<<Bool(in[1].v >= in[2].v)>>)
\* a bigint is truthy when it is not 0n
LogicalAnd(in) == IF ~BothU(in) THEN Fail ELSE Ok(<<Bool(in[2].v # 0 /\ in[1].v # 0)>>)
LogicalOr(in) == IF ~BothU(in) THEN Fail ELSE Ok(<<Bool(in[1].v # 0 \/ in[2].v # 0)>>)
BitwiseOr(in) == IF ~BothU(in) THEN Fail ELSE Ok(<<U(in[1].v | in[2].v)>>)
BitwiseAnd(in) == IF ~BothU(in) THEN Fail ELSE Ok(<<U(in[1].v & in[2].v)>>)
BitwiseXor(in) == IF ~BothU(in) THEN Fail ELSE Ok(<<U(in[1].v ^^ in[2].v)>>)
\* stack.push(~last): the bigint complement -(last + 1)
BitwiseNot(in) == IF ~IsU(in[1]) THEN Fail ELSE Ok(<<U(-(in[1].v + 1))>>)
LogicalNot(in) == IF ~IsU(in[1]) THEN Fail ELSE Ok(<<Bool(in[1].v = 0)>>)

\* typeof must agree; bytes are compared element-wise (compareArray)
EqualTo(in, h) ==
  IF in[1].t # in[2].t THEN Fail
  ELSE IF IsU(in[1]) THEN Ok(<<Bool(in[1].v = in[2].v)>>)
  ELSE Ok(<<Bool(h[in[1].v] = h[in[2].v])>>)
NotEqualTo(in, h) ==
  IF in[1].t # in[2].t THEN Fail
  ELSE IF IsU(in[1]) THEN Ok(<<Bool(in[1].v # in[2].v)>>)
  ELSE Ok(<<Bool(h[in[1].v] # h[in[2].v])>>)

LenOp(in, h) == IF ~IsB(in[1]) THEN Fail ELSE Ok(<<U(Len(h[in[1].v]))>>)
Itob(in) == IF ~IsU(in[1]) THEN Fail ELSE Ok(<<Fresh(BigEndian(in[1].v, WordBytes))>>)
\* decodeUint64 rejects more than 8 (WordBytes) bytes
Btoi(in, h) ==
  IF ~IsB(in[1]) \/ Len(h[in[1].v]) > WordBytes THEN Fail
  ELSE Ok(<<U(FromBigEndian(h[in[1].v]))>>)

\* (mutant) the wrapped sum without subtracting the final 1
AddwNoBorrow(in) ==
  IF ~BothU(in) THEN Fail
  ELSE LET c == in[2].v + in[1].v IN
       IF c > MAX THEN Ok(<<U(1), U(c - MAX)>>) ELSE Ok(<<U(0), U(c)>>)

\* valueC = a + b; on overflow push 1 and valueC - MAX - 1
Addw(in) ==
  IF ~BothU(in) THEN Fail
  ELSE LET c == in[2].v + in[1].v IN
       IF c > MAX THEN Ok(<<U(1), U((c - MAX) - 1)>>) ELSE Ok(<<U(0), U(c)>>)

\* low = result & MAX, high = result >> 64, both checked for overflow
Mulw(in) ==
  IF ~BothU(in) THEN Fail
  ELSE LET res == in[2].v * in[1].v
           low == res & MAX
           high == shiftR(res, W)
       IN IF low > MAX \/ high > MAX THEN Fail ELSE Ok(<<U(high), U(low)>>)

\* c = valueB ++ valueA, refused beyond MAX_CONCAT_SIZE
Concat(in, h) ==
  IF ~IsB(in[1]) \/ ~IsB(in[2]) THEN Fail
  ELSE IF Len(h[in[2].v]) + Len(h[in[1].v]) > MaxConcat THEN Fail
  ELSE Ok(<<Fresh(h[in[1].v] \o h[in[2].v])>>)

\* Op.subString (not under src/; from the spec's substring): end before start, or either beyond the length, fails
SubString(start, end, s) ==
  IF end < start \/ start > Len(s) \/ end > Len(s) THEN Fail
  ELSE Ok(<<Fresh(SubSeq(s, start + 1, end))>>)

\* substring S E: the immediates must be uint8
Substring(in, h, start, end) ==
  IF ~IsB(in[1]) \/ start > 255 \/ end > 255 THEN Fail ELSE SubString(start, end, h[in[1].v])

\* substring3 pops the byte string first, then end, then start
Substring3(in, h) ==
  IF ~IsB(in[3]) \/ ~IsU(in[2]) \/ ~IsU(in[1]) THEN Fail
  ELSE SubString(in[1].v, in[2].v, h[in[3].v])

Assert(in) == IF ~IsU(in[1]) \/ in[1].v = 0 THEN Fail ELSE Ok(<<>>)
Pop(in) == Ok(<<>>)
Dup(in) == Ok(<<in[1], in[1]>>)
Dup2(in) == Ok(<<in[1], in[2], in[1], in[2]>>)
Swap(in) == Ok(<<in[2], in[1]>>)
\* dig N pushes the element N below the top again (the same object)
Dig(in) == Ok(in \o <<in[1]>>)
Select(in) ==
  IF ~IsU(in[3]) THEN Fail ELSE Ok(<<IF in[3].v # 0 THEN in[2] ELSE in[1]>>)

\* (mutant) setbit on bytes counting bits from the least significant end
SetBitLsbFirst(in, h) ==
  LET bit == in[3]  idx == in[2]  target == in[1] IN
  IF ~IsU(bit) \/ ~IsU(idx) THEN Fail
  ELSE IF bit.v > 1 THEN Fail
  ELSE IF IsU(target) THEN
         IF idx.v > W - 1 THEN Fail
         ELSE LET arr == PadStart(Binary(target.v), W)
              IN Ok(<<U(FromBinary([arr EXCEPT ![W - idx.v] = bit.v]))>>)
  ELSE LET s == h[target.v]
           byteIndex == idx.v \div 8
           mask == 2^(idx.v % 8)
       IN IF byteIndex >= Len(s) THEN Fail
          ELSE OkWrite(<<target>>, target.v,
                 [s EXCEPT ![byteIndex + 1] = IF bit.v = 1 THEN @ | mask ELSE @ & (255 - mask)])

\* setbit: bit = last, index, target; uints through a padded binary string,
\* bytes in place with bit 0 the most significant bit of the first byte
SetBit(in, h) ==
  LET bit == in[3]  idx == in[2]  target == in[1] IN
  IF ~IsU(bit) \/ ~IsU(idx) THEN Fail
  ELSE IF bit.v > 1 THEN Fail
  ELSE IF IsU(target) THEN
         IF idx.v > W - 1 THEN Fail
         ELSE LET arr == PadStart(Binary(target.v), W)
              IN Ok(<<U(FromBinary([arr EXCEPT ![W - idx.v] = bit.v]))>>)
  ELSE LET s == h[target.v]
           byteIndex == idx.v \div 8
           mask == 2^(7 - (idx.v % 8))
       IN IF byteIndex >= Len(s) THEN Fail
          ELSE OkWrite(<<target>>, target.v,
                 [s EXCEPT ![byteIndex + 1] = IF bit.v = 1 THEN @ | mask ELSE @ & (255 - mask)])

\* getbit: a uint's unpadded binary string is indexed from its end; an index
\* past its first digit reads undefined and BigInt(undefined) throws
GetBit(in, h) ==
  LET idx == in[2]  target == in[1] IN
  IF ~IsU(idx) THEN Fail
  ELSE IF IsU(target) THEN
         LET str == Binary(target.v) IN
         IF idx.v > W - 1 \/ Len(str) - idx.v < 1 THEN Fail
         ELSE Ok(<<U(str[Len(str) - idx.v])>>)
  ELSE LET s == h[target.v]
           byteIndex == idx.v \div 8
       IN IF byteIndex >= Len(s) THEN Fail
          ELSE Ok(<<U(PadStart(Binary(s[byteIndex + 1]), 8)[(idx.v % 8) + 1])>>)

\* setbyte writes the byte in place
SetByte(in, h) ==
  LET small == in[3]  idx == in[2]  target == in[1] IN
  IF ~IsU(small) \/ ~IsU(idx) \/ ~IsB(target) THEN Fail
  ELSE IF small.v > 255 \/ idx.v >= Len(h[target.v]) THEN Fail
  ELSE OkWrite(<<target>>, target.v, [h[target.v] EXCEPT ![idx.v + 1] = small.v])

GetByte(in, h) ==
  LET idx == in[2]  target == in[1] IN
  IF ~IsU(idx) \/ ~IsB(target) \/ idx.v >= Len(h[target.v]) THEN Fail
  ELSE Ok(<<U(h[target.v][idx.v + 1])>>)

\* int (IntConst) and pushint push the bigint their constructor parsed
IntConst(ins) == Ok(<<U(ins.imm)>>)
PushInt(ins) == Ok(<<U(ins.imm)>>)

\* byte and pushbytes push a new Uint8Array of their constant each time
Byte(ins) == Ok(<<Fresh(ins.imm)>>)
PushBytes(ins) == Ok(<<Fresh(ins.imm)>>)

\* intc: checkIndexBound on interpreter.intcblock, then its bigint
Intc(ins) == IF ins.imm >= Len(IntCBlock) THEN Fail ELSE Ok(<<U(IntCBlock[ins.imm + 1])>>)

\* bz and bnz pop a uint (assertBigInt) and jumpForward or not; b jumps.
\* Where the program goes on is the choice of the next instruction.
BranchIfZero(in) == IF IsU(in[1]) THEN Ok(<<>>) ELSE Fail
BranchIfNotZero(in) == IF IsU(in[1]) THEN Ok(<<>>) ELSE Fail
Branch == Ok(<<>>)

\* return pops the last element, pops the rest of the stack, pushes the
\* last element back and sets the instruction index past the end
Return(in) == Ok(in)

(***************************************************************************)
(* Application state.  g is the global state of ctx.tx.apid and l the      *)
(* sender's local state for it (optedin says whether there is one): maps   *)
(* from the key's bytes to a value.  The store's helpers that read and     *)
(* write them (interpreter.getGlobalState / setGlobalState, the account's  *)
(* getLocalState / setLocalState, getAccount) are not under src/; they     *)
(* follow the spec: keys compare by content, a value is stored as a value, *)
(* a write beyond the schema or to an account that has not opted in throws, *)
(* and Txn.Accounts / Txn.ForeignApps are empty (index 0 only).            *)
(***************************************************************************)
OkGlobal(g) == [ok |-> TRUE, out |-> <<>>, w |-> NoWrite, g |-> g]
OkLocal(l) == [ok |-> TRUE, out |-> <<>>, w |-> NoWrite, l |-> l]
\* the value a popped element is stored as, and the element a stored value is pushed as
Stored(e, h) == IF IsB(e) THEN [t |-> "b", v |-> h[e.v]] ELSE e
Pushed(sv) == IF sv.t = "b" THEN Fresh(sv.v) ELSE U(sv.v)
\* if (val): a Uint8Array is truthy, a bigint when it is not 0n
Truthy(sv) == sv.t = "b" \/ sv.v # 0
\* the map with key k set to v: the pair is pushed, or its value updated
SetKey(kv, k, v) == [x \in DOMAIN kv \cup {k} |-> IF x = k THEN v ELSE kv[x]]
Found(kv, key) == key \in DOMAIN kv /\ Truthy(kv[key])
SchemaOK(kv, schema) ==
  /\ Cardinality({k \in DOMAIN kv : kv[k].t = "u"}) <= schema.numUint
  /\ Cardinality({k \in DOMAIN kv : kv[k].t = "b"}) <= schema.numByteSlice
\* getAccount(accountIndex): 0 is the sender, Txn.Accounts is empty
AccountOK(e) == IsU(e) /\ e.v = 0

\* app_global_get: key = assertBytes(pop); getGlobalState(ctx.tx.apid, key);
\* push val if (val), else 0n
AppGlobalGet(in, h, g) ==
  IF ~IsB(in[1]) THEN Fail
  ELSE IF Found(g, h[in[1].v]) THEN Ok(<<Pushed(g[h[in[1].v]])>>) ELSE Ok(<<U(0)>>)

\* app_global_get_ex: key, then the app index (0: ctx.tx.apid; others are
\* checkIndexBound-ed against the empty apfa); push val, 1 if (val) else 0, 0
AppGlobalGetEx(in, h, g) ==
  IF ~IsB(in[2]) \/ ~IsU(in[1]) \/ in[1].v # 0 THEN Fail
  ELSE IF Found(g, h[in[2].v]) THEN Ok(<<Pushed(g[h[in[2].v]]), U(1)>>) ELSE Ok(<<U(0), U(0)>>)

\* (mutant) app_global_put through a setGlobalState without the schema check
AppGlobalPutNoSchemaCheck(in, h, g) ==
  IF ~IsB(in[1]) THEN Fail ELSE OkGlobal(SetKey(g, h[in[1].v], Stored(in[2], h)))

\* app_global_put: value = pop, key = assertBytes(pop); setGlobalState
AppGlobalPut(in, h, g) ==
  IF ~IsB(in[1]) THEN Fail
  ELSE LET new == SetKey(g, h[in[1].v], Stored(in[2], h))
       IN IF SchemaOK(new, GlobalSchema) THEN OkGlobal(new) ELSE Fail

\* app_global_del: key = assertBytes(pop); getApp; global-state.delete(key)
AppGlobalDel(in, h, g) ==
  IF ~IsB(in[1]) THEN Fail ELSE OkGlobal(Restrict(g, DOMAIN g \ {h[in[1].v]}))

\* app_opted_in: appID, then accountIndex; push 1 if the account's
\* appsLocalState has appID, else 0
AppOptedIn(in, optin) ==
  IF ~IsU(in[2]) \/ ~AccountOK(in[1]) THEN Fail ELSE Ok(<<Bool(in[2].v = AppId /\ optin)>>)

\* app_local_get: key, then accountIndex; getLocalState(ctx.tx.apid, key)
AppLocalGet(in, h, l, optin) ==
  IF ~IsB(in[2]) \/ ~AccountOK(in[1]) THEN Fail
  ELSE IF optin /\ Found(l, h[in[2].v]) THEN Ok(<<Pushed(l[h[in[2].v]])>>) ELSE Ok(<<U(0)>>)

\* app_local_get_ex: key, appID, accountIndex; getLocalState(appID, key)
AppLocalGetEx(in, h, l, optin) ==
  IF ~IsB(in[3]) \/ ~IsU(in[2]) \/ ~AccountOK(in[1]) THEN Fail
  ELSE IF in[2].v = AppId /\ optin /\ Found(l, h[in[3].v])
       THEN Ok(<<Pushed(l[h[in[3].v]]), U(1)>>) ELSE Ok(<<U(0), U(0)>>)

\* app_local_put: value, key, accountIndex; setLocalState(ctx.tx.apid, ...)
\* throws unless the account opted in, or past the local schema
AppLocalPut(in, h, l, optin) ==
  IF ~IsB(in[2]) \/ ~AccountOK(in[1]) \/ ~optin THEN Fail
  ELSE LET new == SetKey(l, h[in[2].v], Stored(in[3], h))
       IN IF SchemaOK(new, LocalSchema) THEN OkLocal(new) ELSE Fail

\* app_local_del: assertMinStackLen(1) but two pops: key, then accountIndex
\* (undefined from an empty stack, which assertBigInt refuses); deletes
\* the key only if the account has a local state for the app
AppLocalDel(in, h, l, optin) ==
  IF ~IsB(in[2]) \/ ~AccountOK(in[1]) THEN Fail
  ELSE IF optin THEN OkLocal(Restrict(l, DOMAIN l \ {h[in[2].v]})) ELSE Ok(<<>>)

(***************************************************************************)
(* Transaction, group and account reads.  txnSpecbyField and txAppArg     *)
(* (lib/txn.ts) and getAccount are not under src/ and follow the spec:    *)
(* GroupIndex is the position of the transaction, FirstValidTime fails,   *)
(* Accounts index 0 is the sender and ApplicationArgs index 0 the first   *)
(* argument.  A field value is parsed into a new Uint8Array or a bigint.  *)
(* An immediate is <<field>> or <<field, index>>, after the group index   *)
(* for gtxn and gtxna.                                                     *)
(***************************************************************************)
\* txnSpecbyField(field, gtxs[t], gtxs)
TxnSpecByField(t, f) ==
  CASE f = "FirstValidTime" -> Fail
    [] f = "GroupIndex"     -> Ok(<<U(t - 1)>>)
    [] OTHER                -> Ok(<<Pushed(Gtxs[t][f])>>)

\* txAppArg(field, gtxs[t], idx): checkIndexBound on the array
TxAppArg(t, f, i) ==
  CASE f = "Accounts" /\ i = 0 -> Ok(<<Pushed(Gtxs[t].Sender)>>)
    [] f = "Accounts" -> IF i <= Len(Gtxs[t].Accounts) THEN Ok(<<Pushed(Gtxs[t].Accounts[i])>>) ELSE Fail
    [] OTHER -> IF i < Len(Gtxs[t].ApplicationArgs) THEN Ok(<<Pushed(Gtxs[t].ApplicationArgs[i + 1])>>) ELSE Fail

\* Txn.execute: an array field (idx defined) goes to txAppArg
TxnOf(t, imm) == IF Len(imm) = 2 THEN TxAppArg(t, imm[1], imm[2]) ELSE TxnSpecByField(t, imm[1])

\* Txna.execute: txAppArg of ctx.tx
Txna(imm) == TxAppArg(CurTx, imm[1], imm[2])

\* Gtxn.execute: assertUint8(txIdx), checkIndexBound(txIdx, gtxs), then as Txn
GtxnAt(g, imm) == IF g > 255 \/ g >= Len(Gtxs) THEN Fail ELSE TxnOf(g + 1, imm)

\* Gtxna.execute: the same checks, then txAppArg of gtxs[txIdx]
Gtxna(g, imm) == IF g > 255 \/ g >= Len(Gtxs) THEN Fail ELSE TxAppArg(g + 1, imm[1], imm[2])

\* Gtxns.execute / Gtxnsa.execute: the group index popped (assertBigInt,
\* assertUint8), then the execute of Gtxn / Gtxna
Gtxns(in, imm) == IF ~IsU(in[1]) \/ in[1].v > 255 THEN Fail ELSE GtxnAt(in[1].v, imm)
Gtxnsa(in, imm) == IF ~IsU(in[1]) \/ in[1].v > 255 THEN Fail ELSE Gtxna(in[1].v, imm)

\* Global.execute: GroupSize is gtxs.length, CurrentApplicationID ctx.tx.apid
\* CurrentApplicationID's assertAppDefined holds: the program run is the
\* approval program of AppId, which the runtime found (getProgram)
GlobalOp(f) == Ok(<<U(IF f = "GroupSize" THEN Len(Gtxs) ELSE AppId)>>)

\* Balance.execute / MinBalance.execute: accountIndex = assertBigInt(pop)
Balance(in) == IF ~AccountOK(in[1]) THEN Fail ELSE Ok(<<U(Sender.balance)>>)
MinBalance(in) == IF ~AccountOK(in[1]) THEN Fail ELSE Ok(<<U(Sender.minBalance)>>)

\* GetAssetHolding.execute: assetId, then accountIndex; 0, 0 when the
\* account has no holding of the asset
GetAssetHolding(in, f) ==
  IF ~IsU(in[2]) \/ ~AccountOK(in[1]) THEN Fail
  ELSE IF in[2].v \notin DOMAIN Sender.assets THEN Ok(<<U(0), U(0)>>)
  ELSE LET hd == Sender.assets[in[2].v] IN
       Ok(<<U(IF f = "AssetBalance" THEN hd.amount ELSE IF hd.frozen THEN 1 ELSE 0), U(1)>>)

\* the heap cells of ctx.args, after the bytecblock's
ArgRefs == [i \in DOMAIN Args |-> Len(ByteCBlock) + i]

\* Arg: the constructor's checkIndexBound rejects the program; execute
\* pushes ctx.args[index] itself, the same Uint8Array every time
Arg(ins) == IF ins.imm >= Len(Args) THEN Fail ELSE Ok(<<R(ArgRefs[ins.imm + 1])>>)

(***************************************************************************)
(* Instructions: [op, imm], imm the immediate argument.                    *)
(***************************************************************************)
NullaryOps == {"int", "pushint", "byte", "pushbytes", "intc", "bytec", "load", "err", "b",
               "txn", "txna", "gtxn", "gtxna", "global", "arg"}
UnaryOps == {"pop", "dup", "!", "~", "len", "itob", "btoi", "substring", "assert", "store",
             "bz", "bnz", "return", "app_global_get", "app_global_del",
             "gtxns", "gtxnsa", "balance", "min_balance"}
TernaryOps == {"select", "substring3", "setbit", "setbyte", "app_local_get_ex", "app_local_put"}

\* the elements an opcode pops (Op.assertMinStackLen, not under src/;
\* from the spec's stack effects)
Pops(ins) ==
  CASE ins.op \in NullaryOps -> 0
    [] ins.op \in UnaryOps   -> 1
    [] ins.op \in TernaryOps -> 3
    [] ins.op = "dig"        -> ins.imm + 1
    [] OTHER                 -> 2

\* Opcode.execute for the popped elements; scratch and the bytecblock are
\* the interpreter's (Store, Load, Bytec check the index first)
Execute(ins, in, h, scratch, bytec, g, l, optin) ==
  CASE ins.op = "+"   -> Add(in)
    [] ins.op = "-"   -> Sub(in)
    [] ins.op = "*"   -> Mul(in)
    [] ins.op = "/"   -> Div(in)
    [] ins.op = "%"   -> Mod(in)
    [] ins.op = "<"   -> LessThan(in)
    [] ins.op = ">"   -> GreaterThan(in)
    [] ins.op = "<="  -> LessThanEqualTo(in)
    [] ins.op = ">="  -> GreaterThanEqualTo(in)
    [] ins.op = "&&"  -> LogicalAnd(in)
    [] ins.op = "||"  -> LogicalOr(in)
    [] ins.op = "|"   -> BitwiseOr(in)
    [] ins.op = "&"   -> BitwiseAnd(in)
    [] ins.op = "^"   -> BitwiseXor(in)
    [] ins.op = "~"   -> BitwiseNot(in)
    [] ins.op = "!"   -> LogicalNot(in)
    [] ins.op = "=="  -> EqualTo(in, h)
    [] ins.op = "!="  -> NotEqualTo(in, h)
    [] ins.op = "len" -> LenOp(in, h)
    [] ins.op = "itob" -> Itob(in)
    [] ins.op = "btoi" -> Btoi(in, h)
    [] ins.op = "addw" -> Addw(in)
    [] ins.op = "mulw" -> Mulw(in)
    [] ins.op = "concat" -> Concat(in, h)
    [] ins.op = "substring" -> Substring(in, h, ins.imm[1], ins.imm[2])
    [] ins.op = "substring3" -> Substring3(in, h)
    [] ins.op = "assert" -> Assert(in)
    [] ins.op = "pop"  -> Pop(in)
    [] ins.op = "dup"  -> Dup(in)
    [] ins.op = "dup2" -> Dup2(in)
    [] ins.op = "swap" -> Swap(in)
    [] ins.op = "dig"  -> Dig(in)
    [] ins.op = "select" -> Select(in)
    [] ins.op = "setbit" -> SetBit(in, h)
    [] ins.op = "getbit" -> GetBit(in, h)
    [] ins.op = "setbyte" -> SetByte(in, h)
    [] ins.op = "getbyte" -> GetByte(in, h)
    [] ins.op = "err"  -> Fail
    [] ins.op = "int" -> IntConst(ins)
    [] ins.op = "pushint" -> PushInt(ins)
    [] ins.op = "byte" -> Byte(ins)
    [] ins.op = "pushbytes" -> PushBytes(ins)
    [] ins.op = "intc" -> Intc(ins)
    [] ins.op = "bz" -> BranchIfZero(in)
    [] ins.op = "bnz" -> BranchIfNotZero(in)
    [] ins.op = "b" -> Branch
    [] ins.op = "return" -> Return(in)
    [] ins.op = "bytec" -> IF ins.imm >= Len(bytec) THEN Fail ELSE Ok(<<R(bytec[ins.imm + 1])>>)
    [] ins.op = "load" -> IF ins.imm >= ScratchSize THEN Fail ELSE Ok(<<scratch[ins.imm]>>)
    [] ins.op = "store" -> IF ins.imm >= ScratchSize THEN Fail ELSE Ok(<<>>)
    [] ins.op = "app_global_get" -> AppGlobalGet(in, h, g)
    [] ins.op = "app_global_get_ex" -> AppGlobalGetEx(in, h, g)
    [] ins.op = "app_global_put" -> AppGlobalPut(in, h, g)
    [] ins.op = "app_global_del" -> AppGlobalDel(in, h, g)
    [] ins.op = "app_opted_in" -> AppOptedIn(in, optin)
    [] ins.op = "app_local_get" -> AppLocalGet(in, h, l, optin)
    [] ins.op = "app_local_get_ex" -> AppLocalGetEx(in, h, l, optin)
    [] ins.op = "app_local_put" -> AppLocalPut(in, h, l, optin)
    [] ins.op = "app_local_del" -> AppLocalDel(in, h, l, optin)
    [] ins.op = "txn" -> TxnOf(CurTx, ins.imm)
    [] ins.op = "txna" -> Txna(ins.imm)
    [] ins.op = "gtxn" -> GtxnAt(ins.imm[1], Tail(ins.imm))
    [] ins.op = "gtxna" -> Gtxna(ins.imm[1], Tail(ins.imm))
    [] ins.op = "gtxns" -> Gtxns(in, ins.imm)
    [] ins.op = "gtxnsa" -> Gtxnsa(in, ins.imm)
    [] ins.op = "global" -> GlobalOp(ins.imm)
    [] ins.op = "balance" -> Balance(in)
    [] ins.op = "min_balance" -> MinBalance(in)
    [] ins.op = "asset_holding_get" -> GetAssetHolding(in, ins.imm)
    [] ins.op = "arg" -> Arg(ins)

(***************************************************************************)
(* The interpreter running a program.  The bytecblock is loaded into the   *)
(* heap cells 1..Len(ByteCBlock), ctx.args into the cells after them;     *)
(* scratch starts as 256 (ScratchSize)                                     *)
(* zeros.  A cell no stack entry, scratch slot or bytecblock entry refers  *)
(* to is garbage and is reclaimed.                                         *)
(***************************************************************************)
VARIABLES stack, heap, scratch, status, steps,
          gstate,   \* app["global-state"] of ctx.tx.apid in ctx.state
          lstate,   \* the sender's appsLocalState entry for it: key-value
          optedin   \* whether the sender has that entry

vars == <<stack, heap, scratch, status, steps, gstate, lstate, optedin>>

BytecRefs == [i \in DOMAIN ByteCBlock |-> i]
RefsIn(seq) == {seq[i].v : i \in {j \in DOMAIN seq : IsB(seq[j])}}
Live(st, sc) == RefsIn(st) \cup RefsIn(sc) \cup DOMAIN ByteCBlock \cup Range(ArgRefs)
\* the cell a new Uint8Array gets: the lowest one that is not live
Alloc(used) == CHOOSE x \in Refs \ used : \A y \in Refs \ used : x <= y

Init ==
  /\ stack = <<>>
  /\ heap = [x \in Refs |-> CASE x \in DOMAIN ByteCBlock -> ByteCBlock[x]
                              [] x - Len(ByteCBlock) \in DOMAIN Args -> Args[x - Len(ByteCBlock)]
                              [] OTHER -> <<>>]
  /\ scratch = [i \in 0..(ScratchSize - 1) |-> U(0)]
  /\ status = "run"
  /\ steps = 0
  /\ gstate = <<>>
  /\ lstate = <<>>
  /\ optedin \in OptIns

\* execute() of ins throws in the current state: assertMinStackLen, an
\* operand or range check of the opcode, or the stack limit of push
Throws(ins) ==
  LET n == Len(stack)
      k == Pops(ins)
      in == SubSeq(stack, n - k + 1, n)
      rest == IF ins.op = "return" THEN <<>> ELSE SubSeq(stack, 1, n - k)
      r == Execute(ins, in, heap, scratch, BytecRefs, gstate, lstate, optedin)
  IN k > n \/ ~r.ok \/ Len(rest) + Len(r.out) > StackLimit

\* one instruction of the execution loop: execute() pops its operands
\* (assertMinStackLen first), checks them, writes in place and pushes; a
\* throw rejects the program, and return ends it
Step(ins) ==
  LET n == Len(stack)
      k == Pops(ins)
      in == SubSeq(stack, n - k + 1, n)
      rest == IF ins.op = "return" THEN <<>> ELSE SubSeq(stack, 1, n - k)
      r == Execute(ins, in, heap, scratch, BytecRefs, gstate, lstate, optedin)
      written == IF r.w.r # 0 THEN [heap EXCEPT ![r.w.r] = r.w.s] ELSE heap
      new == {i \in DOMAIN r.out : r.out[i].t = "new"}
      scratch2 == IF ins.op = "store" THEN [scratch EXCEPT ![ins.imm] = in[1]] ELSE scratch
      used == Live(rest, scratch2) \cup {r.out[i].v : i \in {j \in DOMAIN r.out : IsB(r.out[j])}}
      cell == Alloc(used)
      out == [i \in DOMAIN r.out |-> IF i \in new THEN R(cell) ELSE r.out[i]]
      heap2 == IF new = {} THEN written
               ELSE [written EXCEPT ![cell] = r.out[CHOOSE i \in new : TRUE].v]
      stack2 == rest \o out
  IN /\ status = "run"
     /\ steps < MaxSteps
     /\ steps' = steps + 1
     /\ UNCHANGED optedin
     /\ IF Throws(ins)
        THEN /\ status' = "rejected"
             /\ UNCHANGED <<stack, heap, scratch, gstate, lstate>>
        ELSE /\ new # {} => Refs \ used # {}
             /\ stack' = stack2
             /\ scratch' = scratch2
             /\ heap' = [x \in Refs |-> IF x \in Live(stack2, scratch2) THEN heap2[x] ELSE <<>>]
             /\ status' = IF ins.op = "return" THEN "done" ELSE status
             /\ gstate' = IF "g" \in DOMAIN r THEN r.g ELSE gstate
             /\ lstate' = IF "l" \in DOMAIN r THEN r.l ELSE lstate

Next == \E ins \in Instrs : Step(ins)

Spec == Init /\ [][Next]_vars

(***************************************************************************)
(* Properties                                                              *)
(***************************************************************************)
Elem == [t : {"u"}, v : 0..MAX] \cup [t : {"r"}, v : Refs]

\* Every stack entry and scratch slot is a uint64 in range or a reference
\* to a live cell, and no byte string is longer than MAX_CONCAT_SIZE: the
\* overflow checks of +, *, addw and mulw and the size check of concat
\* keep every value a TEAL value; the global and local states hold TEAL
\* values, under keys no longer than MAX_CONCAT_SIZE, within their schemas.
TypeOK ==
  /\ stack \in Seq(Elem) /\ Len(stack) <= StackLimit
  /\ scratch \in [0..(ScratchSize - 1) -> Elem]
  /\ \A x \in Refs : heap[x] \in Seq(0..255) /\ Len(heap[x]) <= MaxConcat
  /\ status \in {"run", "rejected", "done"}
  /\ steps \in 0..MaxSteps
  /\ \A kv \in {gstate, lstate} :
       \A k \in DOMAIN kv : Len(k) <= MaxConcat /\ kv[k] \in [t : {"u"}, v : 0..MAX] \cup [t : {"b"}, v : Seq(0..255)]
  /\ SchemaOK(gstate, GlobalSchema) /\ SchemaOK(lstate, LocalSchema)

\* the value a stack entry or slot stands for
Val(e) == IF IsB(e) THEN [t |-> "b", v |-> heap[e.v]] ELSE e

TS == INSTANCE TealSpec WITH
        vstack <- [i \in DOMAIN stack |-> Val(stack[i])],
        vscratch <- [i \in DOMAIN scratch |-> Val(scratch[i])],
        vbytec <- [i \in DOMAIN ByteCBlock |-> Val(R(i))],
        vglobal <- gstate,
        vlocal <- lstate

\* execute() of an instruction throws if and only if the spec's meaning of
\* that same instruction rejects, in the current state
RejectsAsSpecified ==
  status = "run" /\ steps < MaxSteps => \A ins \in Instrs : Throws(ins) <=> TS!Rejects(ins)

\* The interpreter implements the TEAL stack machine: every instruction,
\* read through the Uint8Array references, pushes what the spec says and
\* changes no value it did not pop -- not an entry lower in the stack, a
\* scratch slot or a bytecblock constant sharing the array it wrote in
\* place -- and, in every reachable state, each instruction throws exactly
\* where the spec rejects that same instruction.  The second half is what
\* a missing check, an off-by-one in a bound, or a throw where the spec
\* pushes a value (getbit past a uint's digits) breaks even when another
\* instruction that always rejects, like err, lets the rejection step refine.
ImplementsTealSpec == TS!Spec /\ []RejectsAsSpecified
====
