---------------------------- MODULE Dictionaries ----------------------------
(* Python dictionaries as functions on the keys they hold.                 *)

\* The dictionary d after d[k] = v.
Put(d, k, v) == [key \in DOMAIN d \union {k} |-> IF key = k THEN v ELSE d[key]]

\* The dictionary d after d.update(new).
Update(d, new) ==
    [key \in DOMAIN d \union DOMAIN new |-> IF key \in DOMAIN new THEN new[key] ELSE d[key]]

=============================================================================
