---------------------------- MODULE MCPolicyGate ----------------------------
EXTENDS PolicyGate, TLC

Symmetry == Permutations(Clients) \union Permutations(Policies)
              \union Permutations(Guardrails)
=============================================================================
