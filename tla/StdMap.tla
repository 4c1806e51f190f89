------------------------------- MODULE StdMap -------------------------------
(***************************************************************************)
(* The maps of the program (std::unordered_map and .NET's Dictionary), as  *)
(* functions on the keys that are present.                                 *)
(***************************************************************************)

\* emplace: an entry that is there is kept.
Emplace(map, key, value) ==
    [k \in DOMAIN map \cup {key} |-> IF k \in DOMAIN map THEN map[k] ELSE value]

\* map[key] = value: an entry that is there is replaced.
Assign(map, key, value) ==
    [k \in DOMAIN map \cup {key} |-> IF k = key THEN value ELSE map[k]]
==============================================================================
