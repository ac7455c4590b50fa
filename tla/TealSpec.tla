------------------------------ MODULE TealSpec ------------------------------
(***************************************************************************)
(* What a TEAL program means: the stack machine of the specification       *)
(* (sections 4.1 and 4.3 of spec.md), over values.  A value is a uint of W *)
(* bits or a byte string; the stack, the scratch slots and the             *)
(* bytecblock hold values, so no instruction can change a value it did    *)
(* not pop.  A failing instruction rejects the program.                    *)
(*                                                                         *)
(* The application state opcodes work on the global state of the called   *)
(* app (AppId) and the local state of the sender for it, when the sender  *)
(* has opted in: maps from byte strings to values, within a schema of a   *)
(* number of uints and a number of byte slices.  Txn.Accounts and         *)
(* Txn.ForeignApps are empty, so account index 0 and app index 0 are the  *)
(* only ones there are.                                                   *)
(*                                                                         *)
(* The program runs for transaction CurTx of the group Gtxs, whose fields *)
(* are values; Accounts index 0 is the sender, ApplicationArgs index 0 the *)
(* first argument.  Args are the arguments of a logic signature and       *)
(* Sender the balance, minimum balance and asset holdings of the sender.  *)
(***************************************************************************)
EXTENDS Integers, Sequences, Functions, FiniteSets

CONSTANTS W, MaxConcat, StackLimit, ScratchSize, IntCBlock, ByteCBlock, Instrs, MaxSteps,
          AppId, GlobalSchema, LocalSchema, OptIns, Gtxs, CurTx, Args, Sender

VARIABLES vstack, vscratch, vbytec, status, steps,
          vglobal,  \* the app's global state: key -> value
          vlocal,   \* the sender's local state for the app: key -> value
          optedin   \* whether the sender has opted in to the app

MAXW == 2^W - 1
Word == W \div 8
UV(n) == [t |-> "u", v |-> n]
BV(s) == [t |-> "b", v |-> s]
Done(out) == [ok |-> TRUE, out |-> out]
Reject == [ok |-> FALSE, out |-> <<>>]

Bit(n, i) == (n \div 2^i) % 2
FromBits(b) == SumFunction([i \in DOMAIN b |-> b[i] * 2^i])
BitsOp(a, b, F(_, _)) == FromBits([i \in 0..(W - 1) |-> F(Bit(a, i), Bit(b, i))])
Word2Bytes(n) == [i \in 1..Word |-> (n \div 256^(Word - i)) % 256]
Bytes2Word(s) == SumFunction([i \in DOMAIN s |-> s[i] * 256^(Len(s) - i)])
\* bit i of a byte string: bit 0 is the most significant bit of the first byte
ByteBit(s, i) == Bit(s[(i \div 8) + 1], 7 - (i % 8))
WithBit(n, i, b) == n - Bit(n, i) * 2^i + b * 2^i

\* Uint ops: x is the deeper operand, y the top
UintOp(op, x, y) ==
  CASE op = "+"  -> IF x + y > MAXW THEN Reject ELSE Done(<<UV(x + y)>>)
    [] op = "-"  -> IF y > x THEN Reject ELSE Done(<<UV(x - y)>>)
    [] op = "*"  -> IF x * y > MAXW THEN Reject ELSE Done(<<UV(x * y)>>)
    [] op = "/"  -> IF y = 0 THEN Reject ELSE Done(<<UV(x \div y)>>)
    [] op = "%"  -> IF y = 0 THEN Reject ELSE Done(<<UV(x % y)>>)
    [] op = "<"  -> Done(<<UV(IF x < y THEN 1 ELSE 0)>>)
    [] op = ">"  -> Done(<<UV(IF x > y THEN 1 ELSE 0)>>)
    [] op = "<=" -> Done(<<UV(IF x <= y THEN 1 ELSE 0)>>)
    [] op = ">=" -> Done(<<UV(IF x >= y THEN 1 ELSE 0)>>)
    [] op = "&&" -> Done(<<UV(IF x # 0 /\ y # 0 THEN 1 ELSE 0)>>)
    [] op = "||" -> Done(<<UV(IF x # 0 \/ y # 0 THEN 1 ELSE 0)>>)
    [] op = "|"  -> Done(<<UV(BitsOp(x, y, LAMBDA p, q : IF p + q > 0 THEN 1 ELSE 0))>>)
    [] op = "&"  -> Done(<<UV(BitsOp(x, y, LAMBDA p, q : p * q))>>)
    [] op = "^"  -> Done(<<UV(BitsOp(x, y, LAMBDA p, q : (p + q) % 2))>>)
    [] op = "addw" -> Done(<<UV((x + y) \div 2^W), UV((x + y) % 2^W)>>)
    [] op = "mulw" -> Done(<<UV((x * y) \div 2^W), UV((x * y) % 2^W)>>)

Slice(s, a, b) ==
  IF a > b \/ a > Len(s) \/ b > Len(s) THEN Reject ELSE Done(<<BV(SubSeq(s, a + 1, b))>>)

\* a key-value map holds no more uints and byte slices than its schema
Fits(kv, schema) ==
  /\ Cardinality({k \in DOMAIN kv : kv[k].t = "u"}) <= schema.numUint
  /\ Cardinality({k \in DOMAIN kv : kv[k].t = "b"}) <= schema.numByteSlice
\* value and did_exist of a key; the value is 0 when it does not exist
Lookup(kv, k) == IF k \in DOMAIN kv THEN <<kv[k], UV(1)>> ELSE <<UV(0), UV(0)>>
LocalLookup(app, k) == IF app = AppId /\ optedin THEN Lookup(vlocal, k) ELSE <<UV(0), UV(0)>>
DoneGlobal(kv) == [ok |-> TRUE, out |-> <<>>, g |-> kv]
DoneLocal(kv) == [ok |-> TRUE, out |-> <<>>, l |-> kv]
PutIn(kv, k, v, schema, Done2(_)) ==
  LET new == [x \in DOMAIN kv \cup {k} |-> IF x = k THEN v ELSE kv[x]] IN IF Fits(new, schema) THEN Done2(new) ELSE Reject
DelIn(kv, k) == Restrict(kv, DOMAIN kv \ {k})

\* txn/gtxn field f of transaction t (1-based): GroupIndex is the position
\* in the group, FirstValidTime always fails
FieldOf(t, f) ==
  CASE f = "FirstValidTime" -> Reject
    [] f = "GroupIndex"     -> Done(<<UV(t - 1)>>)
    [] OTHER                -> Done(<<Gtxs[t][f]>>)
\* element i of array field f, with explicit bounds checks
ArrayFieldOf(t, f, i) ==
  IF f = "Accounts"
  THEN IF i = 0 THEN Done(<<Gtxs[t].Sender>>)
       ELSE IF i <= Len(Gtxs[t].Accounts) THEN Done(<<Gtxs[t].Accounts[i]>>) ELSE Reject
  ELSE IF i < Len(Gtxs[t].ApplicationArgs) THEN Done(<<Gtxs[t].ApplicationArgs[i + 1]>>) ELSE Reject
\* an immediate <<f>> or <<f, i>> read from transaction t
TxnRead(t, imm) == IF Len(imm) = 2 THEN ArrayFieldOf(t, imm[1], imm[2]) ELSE FieldOf(t, imm[1])
\* the same from group position g (0-based), which must exist
GroupRead(g, imm) == IF g < Len(Gtxs) THEN TxnRead(g + 1, imm) ELSE Reject

AllU(in) == \A i \in DOMAIN in : in[i].t = "u"
UintOps == {"+", "-", "*", "/", "%", "<", ">", "<=", ">=", "&&", "||", "|", "&", "^", "addw", "mulw"}

\* the meaning of instruction ins on the popped values in (top last)
Meaning(ins, in) ==
  LET n == Len(in) IN
  CASE ins.op \in UintOps -> IF AllU(in) THEN UintOp(ins.op, in[1].v, in[2].v) ELSE Reject
    [] ins.op = "~" -> IF AllU(in) THEN Done(<<UV(MAXW - in[1].v)>>) ELSE Reject
    [] ins.op = "!" -> IF AllU(in) THEN Done(<<UV(IF in[1].v = 0 THEN 1 ELSE 0)>>) ELSE Reject
    [] ins.op \in {"==", "!="} ->
         IF in[1].t # in[2].t THEN Reject
         ELSE Done(<<UV(IF (in[1] = in[2]) = (ins.op = "==") THEN 1 ELSE 0)>>)
    [] ins.op = "len" -> IF in[1].t = "b" THEN Done(<<UV(Len(in[1].v))>>) ELSE Reject
    [] ins.op = "itob" -> IF AllU(in) THEN Done(<<BV(Word2Bytes(in[1].v))>>) ELSE Reject
    [] ins.op = "btoi" ->
         IF in[1].t = "b" /\ Len(in[1].v) <= Word THEN Done(<<UV(Bytes2Word(in[1].v))>>) ELSE Reject
    [] ins.op = "concat" ->
         IF in[1].t = "b" /\ in[2].t = "b" /\ Len(in[1].v) + Len(in[2].v) <= MaxConcat
         THEN Done(<<BV(in[1].v \o in[2].v)>>) ELSE Reject
    [] ins.op = "substring" ->
         IF in[1].t = "b" THEN Slice(in[1].v, ins.imm[1], ins.imm[2]) ELSE Reject
    [] ins.op = "substring3" ->
         IF in[3].t = "b" /\ in[1].t = "u" /\ in[2].t = "u" THEN Slice(in[3].v, in[1].v, in[2].v) ELSE Reject
    [] ins.op = "getbit" ->
         IF in[2].t # "u" THEN Reject
         ELSE IF in[1].t = "u" THEN (IF in[2].v < W THEN Done(<<UV(Bit(in[1].v, in[2].v))>>) ELSE Reject)
         ELSE IF in[2].v < 8 * Len(in[1].v) THEN Done(<<UV(ByteBit(in[1].v, in[2].v))>>) ELSE Reject
    [] ins.op = "setbit" ->
         IF in[2].t # "u" \/ in[3].t # "u" \/ in[3].v > 1 THEN Reject
         ELSE IF in[1].t = "u"
              THEN (IF in[2].v < W THEN Done(<<UV(WithBit(in[1].v, in[2].v, in[3].v))>>) ELSE Reject)
         ELSE IF in[2].v >= 8 * Len(in[1].v) THEN Reject
         ELSE LET j == (in[2].v \div 8) + 1 IN
              Done(<<BV([in[1].v EXCEPT ![j] = WithBit(@, 7 - (in[2].v % 8), in[3].v)])>>)
    [] ins.op = "getbyte" ->
         IF in[1].t = "b" /\ in[2].t = "u" /\ in[2].v < Len(in[1].v)
         THEN Done(<<UV(in[1].v[in[2].v + 1])>>) ELSE Reject
    [] ins.op = "setbyte" ->
         IF in[1].t = "b" /\ in[2].t = "u" /\ in[3].t = "u" /\ in[2].v < Len(in[1].v) /\ in[3].v <= 255
         THEN Done(<<BV([in[1].v EXCEPT ![in[2].v + 1] = in[3].v])>>) ELSE Reject
    [] ins.op = "assert" -> IF in[1].t = "u" /\ in[1].v # 0 THEN Done(<<>>) ELSE Reject
    [] ins.op = "err" -> Reject
    [] ins.op = "pop" -> Done(<<>>)
    [] ins.op = "dup" -> Done(<<in[1], in[1]>>)
    [] ins.op = "dup2" -> Done(in \o in)
    [] ins.op = "swap" -> Done(<<in[2], in[1]>>)
    [] ins.op = "dig" -> Done(in \o <<in[1]>>)
    [] ins.op = "select" -> IF in[3].t # "u" THEN Reject ELSE Done(<<IF in[3].v # 0 THEN in[2] ELSE in[1]>>)
    [] ins.op \in {"int", "pushint"} -> Done(<<UV(ins.imm)>>)
    [] ins.op \in {"byte", "pushbytes"} -> Done(<<BV(ins.imm)>>)
    [] ins.op = "intc" -> IF ins.imm < Len(IntCBlock) THEN Done(<<UV(IntCBlock[ins.imm + 1])>>) ELSE Reject
    \* a branch takes a uint; where it jumps is the choice of the next instruction
    [] ins.op \in {"bz", "bnz"} -> IF AllU(in) THEN Done(<<>>) ELSE Reject
    [] ins.op = "b" -> Done(<<>>)
    [] ins.op = "return" -> Done(in)
    [] ins.op = "bytec" -> IF ins.imm < Len(vbytec) THEN Done(<<vbytec[ins.imm + 1]>>) ELSE Reject
    [] ins.op = "load" -> IF ins.imm < ScratchSize THEN Done(<<vscratch[ins.imm]>>) ELSE Reject
    [] ins.op = "store" -> IF ins.imm < ScratchSize THEN Done(<<>>) ELSE Reject
    \* application state: in[1] is the account index or the key, as popped last
    [] ins.op = "app_global_get" ->
         IF in[1].t = "b" THEN Done(<<Lookup(vglobal, in[1].v)[1]>>) ELSE Reject
    [] ins.op = "app_global_get_ex" ->
         IF in[1] = UV(0) /\ in[2].t = "b" THEN Done(Lookup(vglobal, in[2].v)) ELSE Reject
    [] ins.op = "app_global_put" ->
         IF in[1].t = "b" THEN PutIn(vglobal, in[1].v, in[2], GlobalSchema, DoneGlobal) ELSE Reject
    [] ins.op = "app_global_del" ->
         IF in[1].t = "b" THEN DoneGlobal(DelIn(vglobal, in[1].v)) ELSE Reject
    [] ins.op = "app_opted_in" ->
         IF in[1] = UV(0) /\ in[2].t = "u"
         THEN Done(<<UV(IF in[2].v = AppId /\ optedin THEN 1 ELSE 0)>>) ELSE Reject
    [] ins.op = "app_local_get" ->
         IF in[1] = UV(0) /\ in[2].t = "b" THEN Done(<<LocalLookup(AppId, in[2].v)[1]>>) ELSE Reject
    [] ins.op = "app_local_get_ex" ->
         IF in[1] = UV(0) /\ in[2].t = "u" /\ in[3].t = "b"
         THEN Done(LocalLookup(in[2].v, in[3].v)) ELSE Reject
    [] ins.op = "app_local_put" ->
         IF in[1] = UV(0) /\ in[2].t = "b" /\ optedin
         THEN PutIn(vlocal, in[2].v, in[3], LocalSchema, DoneLocal) ELSE Reject
    [] ins.op = "app_local_del" ->
         IF in[1] # UV(0) \/ in[2].t # "b" THEN Reject
         ELSE IF optedin THEN DoneLocal(DelIn(vlocal, in[2].v)) ELSE Done(<<>>)
    \* transaction, group and account reads
    [] ins.op = "txn" -> TxnRead(CurTx, ins.imm)
    [] ins.op = "txna" -> ArrayFieldOf(CurTx, ins.imm[1], ins.imm[2])
    [] ins.op \in {"gtxn", "gtxna"} -> GroupRead(ins.imm[1], Tail(ins.imm))
    [] ins.op \in {"gtxns", "gtxnsa"} -> IF AllU(in) THEN GroupRead(in[1].v, ins.imm) ELSE Reject
    [] ins.op = "global" ->
         Done(<<IF ins.imm = "GroupSize" THEN UV(Len(Gtxs)) ELSE UV(AppId)>>)
    [] ins.op = "balance" -> IF in[1] = UV(0) THEN Done(<<UV(Sender.balance)>>) ELSE Reject
    [] ins.op = "min_balance" -> IF in[1] = UV(0) THEN Done(<<UV(Sender.minBalance)>>) ELSE Reject
    [] ins.op = "asset_holding_get" ->
         IF in[1] # UV(0) \/ in[2].t # "u" THEN Reject
         ELSE IF in[2].v \notin DOMAIN Sender.assets THEN Done(<<UV(0), UV(0)>>)
         ELSE LET hd == Sender.assets[in[2].v] IN
              Done(<<UV(IF ins.imm = "AssetBalance" THEN hd.amount ELSE IF hd.frozen THEN 1 ELSE 0), UV(1)>>)
    [] ins.op = "arg" -> IF ins.imm < Len(Args) THEN Done(<<BV(Args[ins.imm + 1])>>) ELSE Reject

\* the values an instruction pops
Arity(ins) ==
  CASE ins.op \in {"int", "pushint", "byte", "pushbytes", "intc", "bytec", "load", "err", "b",
                   "txn", "txna", "gtxn", "gtxna", "global", "arg"} -> 0
    [] ins.op \in {"pop", "dup", "!", "~", "len", "itob", "btoi", "substring", "assert", "store",
                   "bz", "bnz", "return", "app_global_get", "app_global_del",
                   "gtxns", "gtxnsa", "balance", "min_balance"} -> 1
    [] ins.op \in {"select", "substring3", "setbit", "setbyte",
                   "app_local_get_ex", "app_local_put"} -> 3
    [] ins.op = "dig" -> ins.imm + 1
    [] OTHER -> 2

Init ==
  /\ vstack = <<>>
  /\ vscratch = [i \in 0..(ScratchSize - 1) |-> UV(0)]
  /\ vbytec = [i \in DOMAIN ByteCBlock |-> BV(ByteCBlock[i])]
  /\ status = "run"
  /\ steps = 0
  /\ vglobal = <<>>
  /\ vlocal = <<>>
  /\ optedin \in OptIns

\* the instruction rejects: too few operands, its meaning rejects, or the
\* result would exceed the stack limit
Rejects(ins) ==
  LET k == Arity(ins)
      rest == SubSeq(vstack, 1, Len(vstack) - k)
      r == Meaning(ins, SubSeq(vstack, Len(vstack) - k + 1, Len(vstack)))
  IN k > Len(vstack) \/ ~r.ok \/ Len(rest) + Len(r.out) > StackLimit

\* one instruction: pop its operands, push its results, or reject;
\* return ends the program with its operand as the only value on the stack
Exec(ins) ==
  LET k == Arity(ins)
      rest == SubSeq(vstack, 1, Len(vstack) - k)
      r == Meaning(ins, SubSeq(vstack, Len(vstack) - k + 1, Len(vstack)))
  IN /\ status = "run"
     /\ steps < MaxSteps
     /\ steps' = steps + 1
     /\ UNCHANGED <<vbytec, optedin>>
     /\ IF Rejects(ins)
        THEN status' = "rejected" /\ UNCHANGED <<vstack, vscratch, vglobal, vlocal>>
        ELSE /\ vstack' = IF ins.op = "return" THEN r.out ELSE rest \o r.out
             /\ vscratch' = IF ins.op = "store"
                            THEN [vscratch EXCEPT ![ins.imm] = vstack[Len(vstack)]]
                            ELSE vscratch
             /\ status' = IF ins.op = "return" THEN "done" ELSE status
             /\ vglobal' = IF "g" \in DOMAIN r THEN r.g ELSE vglobal
             /\ vlocal' = IF "l" \in DOMAIN r THEN r.l ELSE vlocal

Next == \E ins \in Instrs : Exec(ins)

Spec == Init /\ [][Next]_<<vstack, vscratch, vbytec, status, steps, vglobal, vlocal, optedin>>
====
