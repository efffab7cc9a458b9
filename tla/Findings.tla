------------------------------ MODULE Findings ------------------------------
(***************************************************************************)
(* One offline research run over a directory of files, from the documents  *)
(* to the gate on its report: the handlers _retrieve, _verify, _synthesize *)
(* and _integrity of runner.py with claims.py, checkpoints.py and          *)
(* reporting.py.                                                           *)
(*                                                                         *)
(* A sentence is what it is about, the numbers in it and whether it has a  *)
(* negation; each is one claim, and two sentences have the same subject    *)
(* when they differ in their numbers and negations only.  A source is the  *)
(* number of its document in the order of the scan.                        *)
(***************************************************************************)
EXTENDS Standings, Sequences, SequencesExt

CONSTANTS
    Texts,         \* texts that files may have, sequences of sentences
    MaxDocuments,  \* bound: files of the corpus, at most top_k
    Years,         \* the numbers that are years
    ThemeOf,       \* what each councillor makes of each subject
    General,       \* the theme of what has no scope
    OpenClaims,    \* the theme of the disclosure
    Assertive      \* the words of _ASSERTION_RE

ASSUME FindingsAssumption ==
    /\ MaxDocuments \in Nat
    /\ \A text \in Texts :
          /\ text \in Seq(Range(text))
          /\ \A s \in Range(text) : IsFiniteSet(s.numbers) /\ s.denies \in BOOLEAN
    /\ OpenClaims \in Assertive

VARIABLES
    phase,         \* the handler that comes next, or how the run ended
    corpus,        \* the text of each document
    window,        \* the span that retrieval took from each source
    claims,
    counter,       \* the edges of the counterevidence
    rivals,        \* the claims each claim is paired with
    standings,
    sections,      \* the sections of the report and their claims
    failing        \* the checks of the integrity gate that fail

evidence == <<claims, counter, rivals, standings>>
product == <<sections, failing>>
findingsVars == <<phase, corpus, window, evidence, product>>

Documents == DOMAIN corpus

(* Identical copies collapse to the first of them.                         *)
Canonical(d) == CHOOSE e \in Documents : corpus[e] = corpus[d] /\
                    \A f \in Documents : corpus[f] = corpus[d] => e <= f

SourcesOf == {Canonical(d) : d \in Documents}

NoWindow == [from |-> 1, to |-> 0]

WindowsOf(s) == {NoWindow} \cup {w \in [from : DOMAIN corpus[s], to : DOMAIN corpus[s]] :
                                    w.from <= w.to}

-----------------------------------------------------------------------------
(* Sentences against texts: claims.py.                                     *)

NumbersIn(text) == UNION {s.numbers : s \in Range(text)}

Negated(text) == \E s \in Range(text) : s.denies

(* _negation_normalized makes the same of both.                            *)
SameSubject(a, b) == a.about = b.about /\ Cardinality(a.numbers) = Cardinality(b.numbers)

(* compute_scope_match: the scope of two years is a range, which no text   *)
(* has.                                                                    *)
Scoped(a, text) ==
    LET years == a.numbers \cap Years IN
    Cardinality(years) <= 1 /\ years \subseteq NumbersIn(text)

NumericDisagreement(a, text) ==
    a.numbers # {} /\ NumbersIn(text) # {} /\ a.numbers \cap NumbersIn(text) = {}

PolarityFlip(a, text) == Len(text) = 1 /\ SameSubject(a, text[1]) /\ a.denies # text[1].denies

(* classify_edge_relation: of another sentence, or of a span that has it.  *)
Relation(a, text) ==
    LET denied == \/ NumericDisagreement(a, text) /\ \E s \in Range(text) : s.about = a.about
                  \/ PolarityFlip(a, text)
    IN
    IF ~denied /\ (a \notin Range(text) \/ Negated(text) # a.denies) THEN "IRRELEVANT"
    ELSE IF ~Scoped(a, text) THEN "QUALIFIES"
    ELSE IF denied THEN "CONTRADICTS" ELSE "SUPPORTS"

(* discover_contradiction_pairs                                            *)
Disagree(a, b) ==
    /\ SameSubject(a, b)
    /\ \/ a.numbers # {} /\ a.numbers # b.numbers
       \/ a.denies # b.denies

-----------------------------------------------------------------------------
(* _retrieve.                                                              *)

FindingsInit ==
    /\ phase = "retrieving"
    /\ corpus \in UNION {[1..n -> Texts] : n \in 0..MaxDocuments}
    /\ window = <<>> /\ claims = {} /\ counter = <<>> /\ rivals = <<>>
    /\ standings = <<>> /\ sections = {} /\ failing = {}

(* The query graph is gone through to its end: no saturation is reached    *)
(* while it has nodes.  Which window of a text is densest depends on the   *)
(* objective.                                                              *)
Retrieve ==
    /\ phase = "retrieving"
    /\ window' \in [SourcesOf -> UNION {WindowsOf(s) : s \in SourcesOf}]
    /\ \A s \in SourcesOf : window'[s] \in WindowsOf(s)
    /\ phase' = "extracting"
    /\ UNCHANGED <<corpus, evidence, product>>

(* One claim for each statement of a source.                               *)
Statable == UNION {{[source |-> s, says |-> corpus[s][i]] : i \in DOMAIN corpus[s]} :
                      s \in SourcesOf}

ExtractClaims ==
    /\ phase = "extracting"
    /\ claims' = Statable
    /\ phase' = "assessing"
    /\ UNCHANGED <<corpus, window, counter, rivals, standings, product>>

WindowText(s) == SubSeq(corpus[s], window[s].from, window[s].to)

(* The window ends with a word, so that its last sentence has lost its     *)
(* full stop and is not found in it.                                       *)
InWindow(c) == \E i \in window[c.source].from..window[c.source].to - 1 :
                  /\ corpus[c.source][i] = c.says
                  /\ \A j \in 1..i - 1 : corpus[c.source][j] # c.says

(* The one span that supports a claim: the window or the exact sentence.   *)
Span(c) == IF InWindow(c) THEN [source |-> c.source, text |-> WindowText(c.source)]
           ELSE [source |-> c.source, text |-> <<c.says>>]

Supports(c) == Relation(c.says, Span(c).text) = "SUPPORTS"

(* search_counterevidence: the claim's own document is left out.           *)
Hits(c) == {d \in Documents \ {c.source} :
               NumericDisagreement(c.says, corpus[d]) \/ PolarityFlip(c.says, corpus[d])}

(* Every sentence of every document that was hit.                          *)
CounterEdges(c) ==
    {e \in [document : Hits(c), at : UNION {DOMAIN corpus[d] : d \in Documents}] :
        /\ e.at \in DOMAIN corpus[e.document]
        /\ Relation(c.says, <<corpus[e.document][e.at]>>) \in {"CONTRADICTS", "QUALIFIES"}}

Refutes(c, e) == Relation(c.says, <<corpus[e.document][e.at]>>) = "CONTRADICTS"

OneWay(c) == {o \in claims : Disagree(c.says, o.says) /\ c.source <= o.source}

RivalsOf(c) == {o \in claims : Disagree(c.says, o.says)}

(* compute_standing of the edges of a claim: a file is an unverified       *)
(* source with a content hash and no dependencies.                         *)
Judged(c, edges, others) ==
    LET support == IF Supports(c) THEN {[family |-> 1, quality |-> 50, scoped |-> TRUE]} ELSE {}
        against == Cardinality({e \in edges : Refutes(c, e)}) + Cardinality(others)
    IN  Standing(support, Cardinality(support), against)

ComputeStandings ==
    /\ phase = "assessing"
    /\ counter' = [c \in claims |-> CounterEdges(c)]
    /\ rivals' = [c \in claims |-> RivalsOf(c)]
    /\ standings' = [c \in claims |-> Judged(c, counter'[c], rivals'[c])]
    /\ phase' = "checking"
    /\ UNCHANGED <<corpus, window, claims, product>>

(* The id of an edge names the claim and the span.  The span of a sentence *)
(* of the counterevidence is named for the claim, the source and the       *)
(* sentence.                                                               *)
CounterIds(c) == {<<Canonical(e.document), corpus[e.document][e.at]>> : e \in counter[c]}

RivalIds(c) == {Span(o) : o \in rivals[c]}

DistinctIds == \A c \in claims :
    /\ Cardinality(CounterIds(c)) = Cardinality(counter[c])
    /\ Cardinality(RivalIds(c)) = Cardinality(rivals[c])

(* validate_result loads what the attempt wrote, before it commits.        *)
CheckCheckpoint ==
    /\ phase = "checking"
    /\ phase' = IF DistinctIds THEN "verifying" ELSE "unloadable"
    /\ UNCHANGED <<corpus, window, evidence, product>>

-----------------------------------------------------------------------------
(* _verify: the record of a file passes the source trust gate.             *)
Verify ==
    /\ phase = "verifying"
    /\ phase' = IF SourcesOf = {} THEN "untrusted" ELSE "writing"
    /\ UNCHANGED <<corpus, window, evidence, product>>

-----------------------------------------------------------------------------
(* _synthesize: a theme that two councillors propose has a section, with   *)
(* every claim that any of them sees it in.                                *)

Themes(c) == Range(ThemeOf[c.says.about])

Elected ==
    {w \in UNION {Themes(c) : c \in claims} :
        Cardinality({k \in 1..3 : \E c \in claims : ThemeOf[c.says.about][k] = w}) >= 2}

Covered == {c \in claims : Themes(c) \cap Elected # {}}

OnlyElected == {[theme |-> w, members |-> {c \in claims : w \in Themes(c)}] : w \in Elected}

Body ==
    OnlyElected \cup
        (IF Covered = claims THEN {} ELSE {[theme |-> General, members |-> claims \ Covered]})

Disclosure ==
    LET open == {c \in claims : standings[c] = "unresolved"} IN
    IF open = {} THEN {} ELSE {[theme |-> OpenClaims, members |-> open]}

WriteReport ==
    /\ phase = "writing"
    /\ sections' = Body \cup Disclosure
    /\ phase' = "gating"
    /\ UNCHANGED <<corpus, window, evidence, failing>>

-----------------------------------------------------------------------------
(* _integrity: citation_integrity_gate on the report of the swarm.         *)

(* Every section but the last ends with a sentence that names its title    *)
(* and the next.                                                           *)
AssertingTransition ==
    Cardinality(sections) > 1 /\ \E s \in sections : s.theme \in Assertive

(* The lines of the disclosure have the ids of claims only.                *)
Omitted == claims \ UNION {s.members : s \in {r \in sections : r.theme # OpenClaims}}

NotEntailed == {c \in claims : standings[c] # "unresolved" /\ Negated(Span(c).text) # c.says.denies}

Gate ==
    /\ phase = "gating"
    /\ failing' = (IF AssertingTransition THEN {"MATERIAL_UNREGISTERED"} ELSE {})
                  \cup (IF Omitted # {} THEN {"MATERIAL_CLAIM_INCLUDED"} ELSE {})
                  \cup (IF NotEntailed # {} THEN {"CITATION_ENTAILED"} ELSE {})
    /\ phase' = IF failing' = {} THEN "passed" ELSE "blocked"
    /\ UNCHANGED <<corpus, window, evidence, sections>>

FindingsNext ==
    \/ Retrieve
    \/ ExtractClaims
    \/ ComputeStandings
    \/ CheckCheckpoint
    \/ Verify
    \/ WriteReport
    \/ Gate

FindingsSpec == FindingsInit /\ [][FindingsNext]_findingsVars

-----------------------------------------------------------------------------
(* Properties.                                                             *)

(* When two claims disagree, each counts the other's evidence against      *)
(* itself, whichever was found first, and a claim that the document of the *)
(* other contradicts too is left unresolved or contradicted.               *)
DisagreementIsMutual ==
    phase \notin {"retrieving", "extracting", "assessing"} =>
        \A c, o \in claims : Disagree(c.says, o.says) =>
            /\ Span(o) \in RivalIds(c)
            /\ c.source # o.source /\ NumericDisagreement(c.says, corpus[o.source])
                   /\ Scoped(c.says, <<o.says>>) =>
                  Ranks[standings[c]] < Ranks["weak"]

(* The gate finds nothing wrong with the swarm's own report but a title in *)
(* a transition, or a resolved claim whose window has another polarity.    *)
OnlyKnownBlocks ==
    phase = "blocked" =>
        \/ \E s \in sections : s.theme \in Assertive
        \/ \E c \in claims : InWindow(c) /\ standings[c] = "contradicted"

(* runner.py:960-964 says that identical copies collapse to the canonical  *)
(* source and the gate never sees phantom sources; verification.py:883     *)
(* that a 3-way disagreement becomes one cluster.  Either way the evidence *)
(* that retrieval writes is a checkpoint that it can load.                 *)
RetrievalCommits == phase # "unloadable"

(* reporting.py:274-276 says that unresolved claims are governed by their  *)
(* disclosure in the report: a run with one is not blocked for that.       *)
DisclosureSuffices ==
    phase = "blocked" =>
        \/ \E s \in sections : s.theme \in Assertive \ {OpenClaims}
        \/ \E c \in claims : standings[c] = "contradicted"

-----------------------------------------------------------------------------
(* What the proofs rest on.                                                *)

Handling == {"retrieving", "extracting", "assessing", "checking", "unloadable", "verifying",
            "untrusted", "writing", "gating", "passed", "blocked"}

Assessed == phase \notin {"retrieving", "extracting", "assessing"}

(* What a handler has written stays what its inputs make it.               *)
FindingsInv ==
    /\ phase \in Handling
    /\ corpus \in UNION {[1..n -> Texts] : n \in 0..MaxDocuments}
    /\ phase \notin {"retrieving", "extracting"} => claims = Statable
    /\ Assessed =>
          /\ counter = [c \in claims |-> CounterEdges(c)]
          /\ rivals = [c \in claims |-> RivalsOf(c)]
          /\ standings = [c \in claims |-> Judged(c, CounterEdges(c), RivalsOf(c))]
    /\ phase \in {"gating", "passed", "blocked"} => sections = Body \cup Disclosure
    /\ phase = "blocked" => AssertingTransition \/ Omitted # {} \/ NotEntailed # {}
=============================================================================
