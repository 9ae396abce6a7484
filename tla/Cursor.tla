------------------------------- MODULE Cursor -------------------------------
(***************************************************************************)
(* What a cursor over a sorted run of keys promises (spec sections 4.1    *)
(* and 4.4): seek_to_first, seek_to_last, seek(t) and next move it to a   *)
(* position in the keys, eof() holds past the last key, and current()     *)
(* returns the key at the position.  Nothing is promised of current() at  *)
(* eof.  block_reader (BlockCursor) is shown to implement this module,    *)
(* and the merge of CombinedCursor takes its sub-cursors to keep it.       *)
(***************************************************************************)
EXTENDS Integers, Sequences

CONSTANTS
  Contents,   \* the key sequences a cursor may run over, each ascending
  Targets,    \* the keys given to seek
  NoKey       \* current() of a cursor never positioned

VARIABLES
  keys,       \* the keys, in order
  at,         \* the position: 1..Len(keys), Len(keys) + 1 past the end,
              \* 0 before any positioning call
  cur,        \* the key current() returns
  call        \* the last call made and its argument

vars == <<keys, at, cur, call>>

(***************************************************************************)
(* Where each call leaves a cursor over ks, from position p.              *)
(***************************************************************************)
FirstAt(ks) == 1

LastAt(ks) == IF ks = <<>> THEN 1 ELSE Len(ks)

\* the first key >= t, or past the end
LowerBound(ks, t) ==
  LET ge == {i \in DOMAIN ks : ks[i] >= t}
  IN  IF ge = {} THEN Len(ks) + 1 ELSE CHOOSE i \in ge : \A j \in ge : i <= j

After(ks, p) == IF p > Len(ks) THEN p ELSE p + 1

\* the position call op(arg) leaves
Step(ks, op, arg, p) ==
  CASE op = "seek_to_first" -> FirstAt(ks)
    [] op = "seek_to_last"  -> LastAt(ks)
    [] op = "seek"          -> LowerBound(ks, arg)
    [] op = "next"          -> After(ks, p)

AtEof(ks, p) == p > Len(ks)

Init ==
  /\ keys \in Contents
  /\ at = 0
  /\ cur = NoKey
  /\ call = [op |-> "none", arg |-> 0]

\* call op(arg) moves the cursor to where Step puts it; current() is the
\* key there, anything at eof
Call(op, arg) ==
  LET p == Step(keys, op, arg, at)
  IN  /\ at' = p
      /\ ~AtEof(keys, p) => cur' = keys[p]
      /\ call' = [op |-> op, arg |-> arg]
      /\ UNCHANGED keys

SeekToFirst == Call("seek_to_first", 0)

SeekToLast == Call("seek_to_last", 0)

Seek(t) == Call("seek", t)

NextEntry == at # 0 /\ Call("next", 0)

Next ==
  \/ SeekToFirst
  \/ SeekToLast
  \/ \E t \in Targets : Seek(t)
  \/ NextEntry

Spec == Init /\ [][Next]_vars

====
