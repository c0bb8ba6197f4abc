-------------------------- MODULE BytecodeMatching --------------------------
(***************************************************************************)
(* How a verification decides that the code at an address was compiled     *)
(* from the submitted sources: matchBytecode of lib/bytecode-matching.ts,   *)
(* as the verification routes call it, for the runtime code.               *)
(*                                                                         *)
(* The compiler leaves slots open: the address in the call protection of a *)
(* library, immutable variables, and the addresses of linked libraries.    *)
(* Each is filled in from the code on the chain, reported as a             *)
(* transformation, and only then the two are compared, first as they are   *)
(* and then without their auxdata (the CBOR encoded metadata at the end).  *)
(*                                                                         *)
(* A code is a sequence of symbols; a slot, a placeholder and an auxdata   *)
(* are one symbol each.                                                    *)
(***************************************************************************)
EXTENDS Integers, SequencesExt

CONSTANTS
    Compilations,   \* what compilers put out, with their open slots
    OnChain,        \* codes on the chain
    Push20,         \* the opcode of a call protection
    Zero,           \* the content of a slot that is not filled in
    Placeholder,    \* the content of a slot for a library, by its name
    Auxdata,        \* auxdata
    ContentHashes   \* those of them with the hash of the sources

VARIABLES
    input,      \* the compilation and the code on the chain
    result      \* what matchBytecode returns

vars == <<input, result>>

NoResult == [match |-> "none", transformations |-> <<>>, values |-> <<>>]

-----------------------------------------------------------------------------
SplitsOff(code) == code # <<>> /\ Last(code) \in Auxdata

\* splitAuxdata(code).executionBytecode
Execution(code) == IF SplitsOff(code) THEN Front(code) ELSE code

HasContentHash(code) == SplitsOff(code) /\ Last(code) \in ContentHashes

\* code.slice(i, i + 1): nothing beyond the end
Slice(code, i) == IF i \in DOMAIN code THEN <<code[i]>> ELSE <<>>

\* code.slice(0, i): nothing beyond the end either
UpTo(code, i) == SubSeq(code, 1, IF i < Len(code) THEN i ELSE Len(code))

Replaced(code, i, value) == UpTo(code, i - 1) \o value \o SubSeq(code, i + 1, Len(code))

\* A match so far: the code as it is filled in, the report of it, and whether
\* a placeholder was not where it should be.
Unfilled(code) ==
    [code |-> code, transformations |-> <<>>, values |-> <<>>, thrown |-> FALSE]

Report(type, reason, ref) ==
    [type |-> type, reason |-> reason, offset |-> ref.start, id |-> ref.id]

\* Faulty variant: a name is reported at its first reference only.
ReportedOnce(m, r) ==
    IF \E t \in ToSet(m.transformations) : t.id = r.id THEN m.transformations
    ELSE Append(m.transformations, r)

Reported(m, r) == Append(m.transformations, r)

Filled(m, r, value, code) ==
    LET name == <<r.reason, r.id>>
    IN  [m EXCEPT !.code = code,
                  !.transformations = Reported(m, r),
                  !.values = [n \in DOMAIN m.values \cup {name} |->
                                 IF n = name THEN value ELSE m.values[n]]]

IsProtected(code) == Slice(code, 1) = <<Push20>> /\ Slice(code, 2) = <<Zero>>

Starts(references) == {r.start : r \in ToSet(references)}

Slots(c) ==
    Starts(c.immutableReferences) \cup Starts(c.linkReferences)
        \cup (IF IsProtected(c.code) THEN {1, 2} ELSE {})

IsCode(code) == code \in Seq(ToSet(code))
AreReferences(references) ==
    /\ references \in Seq(ToSet(references)) /\ Starts(references) \subseteq Nat
    /\ \A i, j \in DOMAIN references : i # j => references[i].start # references[j].start

\* What a compiler puts out: slots that lie in the code, apart from each other and
\* from the auxdata.  Vyper has one at most, which follows the code, and keeps the
\* metadata of a contract that has it with the creation code
\* (getVyperImmutableReferences).
IsCompiled(c) ==
    LET immutables == Starts(c.immutableReferences)
        libraries == Starts(c.linkReferences)
        taken == (IF IsProtected(c.code) THEN {1, 2} ELSE {})
                     \cup (IF SplitsOff(c.code) THEN {Len(c.code)} ELSE {})
        free == 1..Len(c.code) \ taken
    IN  /\ IsCode(c.code) /\ AreReferences(c.immutableReferences) /\ AreReferences(c.linkReferences)
        /\ IF c.vyper
           THEN /\ c.linkReferences = <<>>
                /\ c.immutableReferences # <<>> =>
                       /\ Len(c.immutableReferences) = 1 /\ immutables = {Len(c.code) + 1}
                       /\ ~HasContentHash(c.code)
           ELSE immutables \cup libraries \subseteq free /\ immutables \cap libraries = {}

\* extractCallProtectionTransformation
Protected(m, onchain) ==
    IF IsProtected(m.code)
    THEN Filled(m, Report("replace", "callProtection", [start |-> 2, id |-> ""]),
                Slice(onchain, 2),
                Slice(onchain, 1) \o Slice(onchain, 2) \o SubSeq(m.code, 3, Len(m.code)))
    ELSE m

\* One reference of extractImmutablesTransformation.  Vyper appends them.
WithImmutable(m, ref, onchain, vyper) ==
    LET value == Slice(onchain, ref.start)
    IN  IF vyper THEN Filled(m, Report("insert", "immutable", ref), value, m.code \o value)
        ELSE Filled(m, Report("replace", "immutable", ref), value,
                    Replaced(m.code, ref.start, value))

\* One reference of extractLibrariesTransformation, which throws when it finds
\* anything but a placeholder
WithLibrary(m, ref, onchain) ==
    LET value == Slice(onchain, ref.start)
    IN  IF m.thrown \/ Slice(m.code, ref.start) \notin {<<Placeholder[ref.id]>>, <<Zero>>}
        THEN [m EXCEPT !.thrown = TRUE]
        ELSE Filled(m, Report("replace", "library", ref), value,
                    Replaced(m.code, ref.start, value))

\* Steps 1 to 3 of matchBytecode
Populated(c, onchain) ==
    LET immutables == FoldLeft(LAMBDA m, ref : WithImmutable(m, ref, onchain, c.vyper),
                               Protected(Unfilled(c.code), onchain), c.immutableReferences)
    IN  FoldLeft(LAMBDA m, ref : WithLibrary(m, ref, onchain), immutables, c.linkReferences)

\* Steps 4 and 5
Verdict(c, populated, onchain) ==
    CASE populated = onchain -> IF HasContentHash(c.code) THEN "exact_match" ELSE "match"
      [] populated # onchain /\ Execution(populated) = Execution(onchain) -> "match"
      [] OTHER -> "null"

matchBytecode(c, onchain) ==
    LET m == Populated(c, onchain)
        verdict == IF m.thrown THEN "error" ELSE Verdict(c, m.code, onchain)
    IN  IF verdict \in {"error", "null"} THEN [NoResult EXCEPT !.match = verdict]
        ELSE [match |-> verdict, transformations |-> m.transformations, values |-> m.values]

-----------------------------------------------------------------------------
Init ==
    /\ input \in [compilation : Compilations, onchain : OnChain]
    /\ result = NoResult

Match ==
    /\ result = NoResult
    /\ result' = matchBytecode(input.compilation, input.onchain)
    /\ UNCHANGED input

Next == Match

-----------------------------------------------------------------------------
TypeOK ==
    /\ input \in [compilation : Compilations, onchain : OnChain]
    /\ result.match \in {"none", "null", "match", "exact_match", "error"}

\* What a reader of the tables does to rebuild the code on the chain from the
\* compiled one: the transformations in their order, with their values by id.
WithTransformation(code, t, values) ==
    LET value == values[<<t.reason, t.id>>]
    IN  IF t.type = "insert"
        THEN UpTo(code, t.offset - 1) \o value \o SubSeq(code, t.offset, Len(code))
        ELSE Replaced(code, t.offset, value)

Applied(code, r) ==
    FoldLeft(LAMBDA done, t : WithTransformation(done, t, r.values), code, r.transformations)

\* The references of one name hold one value on the chain, and the opcode of a
\* call protection is there: the code compares neither.
OneValueEach(c, onchain) ==
    /\ \A refs \in {c.immutableReferences, c.linkReferences} :
           \A r, s \in ToSet(refs) :
               r.id = s.id => Slice(onchain, r.start) = Slice(onchain, s.start)
    /\ IsProtected(c.code) => Slice(onchain, 1) = <<Push20>>

\* A match names all that sets the code on the chain apart from the compiled
\* one: the two differ in slots and in their auxdata only, an exact match also
\* agrees on auxdata that has a content hash, and where each name has one
\* value, the reported transformations and values turn the one into the other.
MatchIsFaithful ==
    result.match \in {"match", "exact_match"} =>
        LET c == input.compilation
            onchain == input.onchain
            rebuilt == Applied(c.code, result)
            exact == result.match = "exact_match"
        IN  /\ \A i \in DOMAIN Execution(onchain) \ Slots(c) : Slice(c.code, i) = <<onchain[i]>>
            /\ exact => HasContentHash(onchain)
            /\ OneValueEach(c, onchain) =>
                   /\ Execution(rebuilt) = Execution(onchain)
                   /\ exact => rebuilt = onchain
=============================================================================
