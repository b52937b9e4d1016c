---------------------------- MODULE MCPinyinIme ----------------------------
(* Instances of PinyinIme for TLC.  SCIM's own page size of 2 stands for 9 and
   the fetch size of 3 for 10; strings have up to PyMax - 1 letters. *)
EXTENDS PinyinIme
=============================================================================
