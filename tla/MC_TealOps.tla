----------------------------- MODULE MC_TealOps -----------------------------
(***************************************************************************)
(* TealOps for TLC: 8-bit uints (one byte for itob/btoi), a bytecblock of  *)
(* one constant, and instruction sets chosen to reach every branch of the *)
(* opcodes they contain: overflow and carry at 255, division by zero,     *)
(* type errors, slices at and past the end, and sharing of one array by   *)
(* dup, dig, load and bytec.                                              *)
(***************************************************************************)
EXTENDS TealOps

\* one constant in each block: the byte 0xff and the uint 255
MCByteCBlock == <<<<255>>>>
MCIntCBlock == <<255>>

I(op, imm) == [op |-> op, imm |-> imm]

\* a global state of one uint and a local state of one byte slice, so that
\* a put of either type past its schema is a few instructions away
MCGlobalSchema == [numUint |-> 1, numByteSlice |-> 0]
MCLocalSchema == [numUint |-> 0, numByteSlice |-> 1]

\* a group of two transactions; the program runs for the first (ctx.tx is
\* gtxs[0] for an app call), whose Accounts array is empty; the second
\* names the first's sender in its Accounts
TB(s) == [t |-> "b", v |-> s]
TU(n) == [t |-> "u", v |-> n]
MCGtxs == << [Sender |-> TB(<<1>>), Fee |-> TU(1), Accounts |-> <<>>, ApplicationArgs |-> <<TB(<<3>>)>>],
             [Sender |-> TB(<<2>>), Fee |-> TU(2), Accounts |-> <<TB(<<1>>)>>, ApplicationArgs |-> <<>>] >>
\* one logic signature argument, and a sender holding frozen units of asset 1
MCArgs == <<<<5>>>>
MCSender == [balance |-> 9, minBalance |-> 2, assets |-> [x \in {1} |-> [amount |-> 3, frozen |-> TRUE]]]

Pushes == {I("int", 0), I("pushint", 1), I("intc", 0), I("pushbytes", <<1>>), I("byte", <<2>>),
           I("bytec", 0)}

\* uint arithmetic, comparison, logic and the stack operations
PureInstrs ==
  Pushes \cup
  {I(op, 0) : op \in {"+", "-", "*", "/", "%", "<", "&&", "||", "|", "&", "^", "!",
                      "addw", "mulw", "==", "!=", "itob", "btoi", "len", "concat",
                      "substring3", "assert", "pop", "dup", "dup2", "swap", "select",
                      "bz", "bnz", "b", "return"}}
  \cup {I("dig", 1), I("load", 0), I("store", 0), I("store", 1), I("bytec", 1), I("intc", 1),
        I("substring", <<0, 1>>), I("err", 0)}

\* the in-place writers setbit and setbyte, with no instruction that makes
\* two entries share an array (no dup, dup2, dig, load or bytec)
\* the transaction, group, global and account reads, split between the two
\* runs: present and absent fields and indexes, group indexes from Pushes
\* (0, 1, 255) and from the immediate, and ctx.args read by arg
TxnReadInstrs ==
  {I("arg", 0), I("arg", 1), I("txn", <<"GroupIndex">>), I("txna", <<"ApplicationArgs", 1>>),
   I("gtxn", <<2, "Fee">>), I("gtxna", <<1, "Accounts", 1>>)}
AcctReadInstrs ==
  {I("txn", <<"Sender">>), I("txn", <<"FirstValidTime">>), I("txn", <<"Accounts", 0>>),
   I("gtxnsa", <<"Accounts", 1>>), I("global", "GroupSize"), I("min_balance", 0),
   I("asset_holding_get", "AssetFrozen")}
\* the pure opcodes (none of which writes in place) with ctx.args and the
\* group reads
PureTxnInstrs == PureInstrs \cup TxnReadInstrs

InPlaceInstrs ==
  {I("pushint", n) : n \in {0, 1, 9, 255}} \cup {I("pushbytes", <<0>>)} \cup
  {I(op, 0) : op \in {"setbit", "setbyte", "getbyte", "concat", "len", "swap", "pop",
                      "select", "==", "btoi"}}
  \cup {I("store", 0)}

\* the application state opcodes, with keys <<0>> and <<0, 0>> (concat), uints
\* 0, 1, 9 and 255 as values, account and app indexes and app ids, and
\* values of both types; app_*_get_ex is left to DivergentInstrs
AppInstrs ==
  {I(op, 0) : op \in {"app_global_get", "app_global_put", "app_global_del", "app_opted_in",
                      "app_local_get", "app_local_put", "app_local_del"}}

InPlaceAppInstrs == InPlaceInstrs \cup AppInstrs
\* the same with reads whose byte strings are new arrays setbit and setbyte
\* may write
InPlaceAppTxnInstrs == InPlaceAppInstrs \cup AcctReadInstrs

\* the opcodes where the code and the spec part: setbyte on the array
\* bytec or arg pushed, setbit on an array load shares with scratch, ~ on a
\* bigint, getbit past a uint's binary digits, and app_global_get_ex /
\* app_local_get_ex of a stored uint 0
DivergentInstrs ==
  {I("bytec", 0), I("pushint", 0), I("pushint", 1), I("pushbytes", <<0>>)}
  \cup {I("store", 0), I("load", 0), I("arg", 0)}
  \cup {I(op, 0) : op \in {"setbyte", "setbit", "~", "getbit", "app_global_put", "app_global_get_ex",
                           "app_local_put", "app_local_get_ex"}}
====
