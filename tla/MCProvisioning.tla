--------------------------- MODULE MCProvisioning ---------------------------
(* Instances of Provisioning for TLC. *)
EXTENDS Provisioning

CONSTANTS c1, c2, r1, d1, o1, o2, s1, s2, k1, n1

\* Two slugs of one name in an organization, under a key the client chose.
OneKey ==
    [c \in {c1, c2} |-> [org |-> o1, slug |-> IF c = c1 THEN s1 ELSE s2, key |-> k1]]

\* One slug in two organizations.
TwoOrgs ==
    [c \in {c1, c2} |-> [org |-> IF c = c1 THEN o1 ELSE o2, slug |-> s1, key |-> k1]]

OneName == [s \in {s1, s2} |-> n1]
=============================================================================
