----------------------------- MODULE SymbolLock -----------------------------
(***************************************************************************)
(* What the lease table promises ("bir sembolde ayni anda tek sahip",      *)
(* core/lease.py): a symbol is taken by one entry at a time, and is taken  *)
(* again only after its holder has let it go.                              *)
(***************************************************************************)
CONSTANTS Symbols, Cids

VARIABLE holder        \* symbol -> the entries that hold it

Init == holder = [s \in Symbols |-> {}]

Take(s, c) ==
  /\ holder[s] = {}
  /\ holder' = [holder EXCEPT ![s] = {c}]

Free(s) ==
  /\ holder[s] # {}
  /\ holder' = [holder EXCEPT ![s] = {}]

Next == \E s \in Symbols : Free(s) \/ \E c \in Cids : Take(s, c)

Spec == Init /\ [][Next]_holder
=============================================================================
