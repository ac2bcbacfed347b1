-------------------------- MODULE MCReplicationRun --------------------------
(***************************************************************************)
(* Small replications for TLC: two tables, up to four tasks.               *)
(***************************************************************************)
EXTENDS ReplicationRun

Stream1(obj, mode, parts, disabled) ==
  [object |-> obj, mode |-> mode, chunking |-> parts < 3, parts |-> parts,
   disabled |-> disabled]
Whole == 3  \* parts of a stream that is not chunked

\* A chunked stream with its neighbours: an ordinary stream into another table or
\* into the same one, a second chunked stream, a disabled one, an empty one.
Configs ==
  { <<Stream1("a", mode, 2, FALSE), Stream1("b", "incremental", Whole, FALSE)>> : mode \in Mode }
  \cup
  { <<Stream1("b", "truncate", Whole, FALSE), Stream1("a", "full-refresh", 2, dis)>> :
      dis \in BOOLEAN }
  \cup
  { <<Stream1("a", "truncate", 2, FALSE), Stream1("a", "truncate", 1, FALSE)>>,
    <<Stream1("a", "full-refresh", 1, FALSE), Stream1("a", "full-refresh", Whole, FALSE)>>,
    <<Stream1("a", "full-refresh", 0, FALSE), Stream1("b", "full-refresh", Whole, TRUE)>>,
    <<Stream1("a", "full-refresh", 1, FALSE), Stream1("b", "truncate", 2, FALSE),
      Stream1("a", "incremental", Whole, FALSE)>>,
    <<Stream1("a", "full-refresh", Whole, FALSE), Stream1("a", "truncate", 2, FALSE)>>,
    <<Stream1("a", "incremental", Whole, FALSE), Stream1("a", "full-refresh", 1, TRUE)>>,
    <<Stream1("a", "truncate", 0, FALSE)>> }

Files == { <<Stream1("a", "full-refresh", Whole, FALSE),
             Stream1("b", "full-refresh", Whole, dis)>> : dis \in BOOLEAN }

Plan1(streams, child, dry, file, hk, timeout) ==
  [streams |-> streams, child |-> child, dry |-> dry, file |-> file,
   startHooks |-> hk, endHooks |-> hk, timeout |-> timeout]

AllPlans ==
  { Plan1(s, FALSE, FALSE, FALSE, TRUE, t) : s \in Configs, t \in BOOLEAN }
  \cup { Plan1(s, c, ~c, FALSE, FALSE, FALSE) : s \in Configs, c \in BOOLEAN }
  \cup { Plan1(s, FALSE, FALSE, TRUE, TRUE, t) : s \in Files, t \in BOOLEAN }

\* One chunked stream in a dry run, and a disabled one.
ClearPlans ==
  { Plan1(<<Stream1("a", "full-refresh", 2, dry = FALSE)>>, FALSE, dry, FALSE, FALSE, FALSE) :
      dry \in BOOLEAN }
============================================================================
