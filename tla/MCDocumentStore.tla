-------------------------- MODULE MCDocumentStore --------------------------
(* Small instances of DocumentStore for TLC.                                *)
EXTENDS DocumentStoreRefinement, TLC

CONSTANTS p, q, a, b, v, w

\* Documents over one key and over two, under a schema that accepts them all.
OneKey  == [{a} -> {v, NoValue}]
TwoKeys == [{a, b} -> {v, NoValue}]
AnyOneKey  == OneKey \cup {Missing}
AnyTwoKeys == TwoKeys \cup {Missing}

\* Two keys, b only next to a: without a, b is nothing that can be patched.
Nested    == TwoKeys \ {[k \in {a, b} |-> IF k = b THEN v ELSE NoValue]}
AnyNested == Nested \cup {Missing}

\* Every refusal of a patch: w is a member of an inline table, which b cannot
\* be added to, and the schema rejects a and b together.
Mixed == {d \in [{a, b} -> {v, w, NoValue}] :
            d[b] # w /\ ~ (d[a] = w /\ d[b] = v)}
AnyMixed == (Mixed \ [{a, b} -> {v}]) \cup {Missing}

Set(x)   == [k \in {x} |-> v]
Reset(x) == [k \in {x} |-> NoValue]

\* Every writer saves either key, or resets the first.
SaversKinds == [x \in Procs |-> {"save"}]
SaversRequests == [x \in Procs |-> {Set(a), Set(b), Reset(a)}]

\* p stages and rolls back one key while q saves the other.
StagerKinds == p :> {"stage", "restore"} @@ q :> {"save"}
StagerRequests == p :> {Set(a)} @@ q :> {Set(b), Reset(b)}

\* Every writer stages and rolls back; a save is a stage without a handle.
StageKinds == [x \in Procs |-> {"stage", "restore"}]

\* Every writer does everything, with one key.
AllKinds == [x \in Procs |-> {"save", "stage", "restore"}]
OneKeyRequests == [x \in Procs |-> {Set(a), Reset(a)}]

WritersAndInodes == Permutations(Procs) \cup Permutations(Inodes)
InodesOnly == Permutations(Inodes)

=============================================================================
