--------------------------- MODULE GrantsContract ---------------------------
(***************************************************************************)
(* What a grants resource promises about a permission domain, without the   *)
(* requests it takes: while no apply runs, others may do anything and the   *)
(* provider writes nothing; an apply takes away only grants that the plan   *)
(* showed as removals, adds only declared rows where there is nothing, and  *)
(* puts the configuration into state only when it is true.  Where it stops, *)
(* how often it tries and in which order it writes is left open.            *)
(* Grants.tla implements it (Contract, at its end).                         *)
(***************************************************************************)

CONSTANTS Rows, Catalog, Offered, DimOf, Dims, Configs, NoState

VARIABLES
    live,       \* what ChurchTools stores for each row
    config,     \* the resource's configuration
    state,      \* terraform's state of the resource
    busy        \* does an apply run?

vars == <<live, config, state, busy>>

Standing == {"none", "grant", "system", "deny"}

Granted(r) == live[r] \in {"grant", "system"}

Init ==
    /\ live \in [Rows -> Standing]
    /\ config \in Configs
    /\ state = NoState
    /\ busy = FALSE

\* Anybody but the provider: the UI, ChurchTools itself, the operator.
Edit ==
    /\ ~busy
    /\ live' \in [Rows -> Standing]
    /\ UNCHANGED <<config, state, busy>>

Configure ==
    /\ ~busy
    /\ config' \in Configs
    /\ UNCHANGED <<live, state, busy>>

\* Read or import: the state shows grants, and rows the host cannot store; and it shows
\* everything an administrator granted that is not preserved.
Show ==
    /\ ~busy
    /\ \E rows \in SUBSET Rows, preserve \in SUBSET Dims :
          /\ state # NoState => preserve = state.preserve
          /\ \A r \in rows :
                \/ Granted(r)
                \/ state # NoState /\ r \in state.rows /\ r.right \notin Offered
          /\ \A r \in Rows :
                live[r] = "grant" /\ r.right \in Catalog /\ DimOf[r.right] \notin preserve
                    => r \in rows
          /\ state' = [rows |-> rows, preserve |-> preserve]
    /\ UNCHANGED <<live, config, busy>>

\* Destroy, or a domain that is found gone: nothing is revoked.
Forget ==
    /\ ~busy
    /\ state' = NoState
    /\ UNCHANGED <<live, config, busy>>

Begin ==
    /\ ~busy
    /\ busy' = TRUE
    /\ UNCHANGED <<live, config, state>>

Revoke ==
    /\ busy
    /\ state # NoState
    /\ \E rows \in SUBSET (state.rows \ config.rows) :
          /\ \A r \in rows : live[r] = "grant"
          /\ live' = [r \in Rows |-> IF r \in rows THEN "none" ELSE live[r]]
    /\ UNCHANGED <<config, state, busy>>

Grant ==
    /\ busy
    /\ \E rows \in SUBSET config.rows :
          /\ \A r \in rows : live[r] = "none"
          /\ live' = [r \in Rows |-> IF r \in rows THEN "grant" ELSE live[r]]
    /\ UNCHANGED <<config, state, busy>>

\* An apply succeeds: every declared row the host offers is granted, and no row the plan
\* removed is, but those of a dimension the configuration begins to preserve.
Adopt ==
    /\ busy
    /\ \A r \in config.rows : r.right \in Offered => Granted(r)
    /\ state # NoState =>
          \A r \in state.rows \ config.rows :
              live[r] = "grant" => DimOf[r.right] \in config.preserve \ state.preserve
    /\ state' = config
    /\ busy' = FALSE
    /\ UNCHANGED <<live, config>>

GiveUp ==
    /\ busy
    /\ busy' = FALSE
    /\ UNCHANGED <<live, config, state>>

Next ==
    \/ Edit \/ Configure \/ Show \/ Forget
    \/ Begin \/ Revoke \/ Grant \/ Adopt \/ GiveUp

Spec == Init /\ [][Next]_vars

=============================================================================
