---------------------------- MODULE MCListPaging ----------------------------
(***************************************************************************)
(* ListPaging over byte strings of a small alphabet.  Keys "a", "ab", "v", *)
(* the reserved key "vss_global_version" and "w", so that a key sorts      *)
(* before and after the reserved key and one key is a prefix of another.   *)
(***************************************************************************)
EXTENDS ListPaging

\* Byte values.
a_ == 97
b_ == 98
s_ == 115
v_ == 118
w_ == 119

\* "vss_global_version"
MCGlobalVersionKey ==
    <<118, 115, 115, 95, 103, 108, 111, 98, 97, 108, 95,
      118, 101, 114, 115, 105, 111, 110>>

MCKeys == {<<a_>>, <<a_, b_>>, <<v_>>, <<w_>>, MCGlobalVersionKey}

\* Prefixes without LIKE wildcards; "vs" is a prefix of the reserved key.
MCPrefixes == {<<>>, <<a_>>, <<v_, s_>>}

\* A prefix with '_'.
MCWildcardPrefixes == {<<a_, UNDERSCORE>>}

MCPageSizes == {0, 2, 3, -1}
MCSmallPageSizes == {1}

MCFirstTokens == {None, <<>>}

=============================================================================
