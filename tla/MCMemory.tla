------------------------------ MODULE MCMemory ------------------------------
(* A memory of each client, with capacities that are reached soon.         *)
EXTENDS MemoryClients, TLC

CONSTANTS a, b, c

PairNear == {{a, b}}

Memory(client, mode, policy, hotCap, archive, diverse, coldCap, saving, horizon) ==
  [client |-> client, mode |-> mode, policy |-> policy, hotCap |-> hotCap,
   archive |-> archive, diverse |-> diverse, coldCap |-> coldCap,
   saving |-> saving, horizon |-> horizon]

Clients ==
  {Memory("direct", "fixed_budget", "min_importance", 2, TRUE, d, 2, FALSE, 4) : d \in BOOLEAN}
  \cup {Memory("direct", "fixed_budget", p, 1, TRUE, TRUE, cap, FALSE, 3) :
          p \in {"fifo", "random"}, cap \in {0, 1}}
  \cup {Memory("direct", "fixed_budget", "lru", 2, arch, FALSE, 1, FALSE, 4) : arch \in BOOLEAN}
  \cup {Memory("direct", "threshold", "min_importance", 1, TRUE, FALSE, 1, FALSE, 3)}
  \cup {Memory("engine", "fixed_budget", "min_importance", 1, TRUE, TRUE, 3, FALSE, 6)}
  \cup {Memory("engine", "fixed_budget", "min_importance", 1, TRUE, TRUE, cap, TRUE, 3) : cap \in {0, 1}}
  \cup {Memory("native", "fixed_budget", "min_importance", 1, TRUE, TRUE, 1, TRUE, 3)}
  \cup {Memory("tool", "fixed_budget", "min_importance", 1, TRUE, TRUE, 1, TRUE, 3)}
  \cup {Memory("chat", "fixed_budget", "min_importance", 1, TRUE, TRUE, 1, FALSE, 4)}
  \cup {Memory("native_chat", "fixed_budget", "min_importance", 1, TRUE, TRUE, 1, FALSE, 4)}

Symmetry == Permutations({a, b})
=============================================================================
