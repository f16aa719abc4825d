--------------------------- MODULE MCGlobalCache ---------------------------
(* Two dictionaries of one language, in the dictionary and language caches. *)
EXTENDS GlobalCache

CONSTANTS t1, t2, d1, d2, en, dictCache, langCache, o1, o2, o3, o4, s1, s2, s3

DictCacheOf == [k \in Key |-> IF k = en THEN langCache ELSE dictCache]
LangOfDict  == [k \in Key |-> IF k = en THEN None ELSE en]
SlotOwner   == [s \in Slot |-> IF s = s2 THEN t2 ELSE t1]
=============================================================================
