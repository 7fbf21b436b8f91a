--------------------------- MODULE MCSessionCache ---------------------------
(***************************************************************************)
(* Instances of SessionCache: prompts that extend one another, that differ *)
(* in their first token, that are too short to cache and that fill the     *)
(* context, under every kind of configuration.                             *)
(***************************************************************************)
EXTENDS SessionCache, TLC

CONSTANTS s1, s2, a, b

Prompts == {<<a>>, <<a, b>>, <<b, b>>, <<a, b, a>>}

Limits(shortest, entries, bytes, ttl) ==
  [min_tokens |-> shortest, max_entries |-> entries, max_bytes |-> bytes, idle_ttl |-> ttl]

(* Off; one entry, short prompts left out; two entries that age; two       *)
(* entries of which the bytes admit one; an entry that never fits.         *)
Configs == {Limits(1, 0, 0, 1), Limits(2, 1, 0, 0), Limits(1, 2, 0, 1),
            Limits(1, 2, 3, 1), Limits(1, 2, 1, 0)}

=============================================================================
