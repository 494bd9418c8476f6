--------------------------- MODULE ResearchQueries ---------------------------
(***************************************************************************)
(* A research query and the rows it leaves: research_queries, research_sources  *)
(* and research_answers, written one statement after the other by POST          *)
(* /brain/query, by POST /research/query or by a research worker. The answer is  *)
(* composed by a language model from the sources found, and kept as composed    *)
(* only if its citations pass (RESEARCH_REQUIRE_CITATIONS is the default); the    *)
(* report pack validates what is stored again.                                *)
(*                                                                         *)
(* Left out: texts, scores, the evaluation and the usage of the provider. What   *)
(* tells sources apart is their age and whether their address is private, what   *)
(* tells domains apart the policy of citations.                               *)
(***************************************************************************)
EXTENDS Naturals, FiniteSets

CONSTANT QueryIds    \* ids of query rows

VARIABLES
    queries,    \* research_queries, with their sources and answer
    asking,     \* what the call that made a query does
    aged        \* queries whose recent sources have become old

researchVars == <<queries, asking, aged>>

FoundUrls == {"recent", "old", "private"}
CitedUrls == FoundUrls \cup {"invented"}
Domains == {"high_stakes", "news", "general"}
Askers == {"brain", "route", "worker"}
NoAnswer == [kind |-> "none"]
NoQuery == [status |-> "none"]
NotAsking == [pc |-> "none"]

ResearchInit ==
    /\ queries = [q \in QueryIds |-> NoQuery] /\ asking = [q \in QueryIds |-> NotAsking]
    /\ aged = {}

ResearchTypeOK ==
    /\ \A q \in QueryIds : queries[q] # NoQuery =>
         /\ queries[q].status \in {"pending", "completed", "failed", "skipped"}
         /\ queries[q].sources \subseteq FoundUrls
         /\ queries[q].domain \in Domains /\ queries[q].by \in Askers
         /\ queries[q].answer.kind \in {"none", "synthesized", "source_list"}
    /\ \A q \in QueryIds : asking[q].pc \in
         {"none", "search", "sources", "compose", "answer", "complete", "error"}
    /\ aged \subseteq QueryIds

-----------------------------------------------------------------------------
(* A definition marked "mutant" is a faulty variant of the one after it; no    *)
(* formula uses it.                                                          *)

\* sourcePolicyForDomain
MinCitations(domain) == IF domain = "high_stakes" THEN 2 ELSE 1

\* validateResearchCitations: every citation has a public source, and enough of
\* them; a domain with high stakes asks for a limitation, news for recent sources.
Validated(answer, sources, domain, isAged) ==
    /\ answer.citations \subseteq sources \ {"private"}
    /\ Cardinality(answer.citations) >= MinCitations(domain)
    /\ domain = "high_stakes" => answer.limited
    /\ domain = "news" => answer.citations \subseteq IF isAged THEN {} ELSE {"recent"}

sourceListOnlyAnswer(sources) ==
    [kind |-> "source_list", citations |-> sources, limited |-> TRUE]

ComposedUnchecked(answer, sources, domain) == answer             \* mutant

\* composeResearchAnswer: what becomes of the model's answer.
Composed(answer, sources, domain) ==
    IF Validated(answer, sources, domain, FALSE) THEN answer ELSE sourceListOnlyAnswer(sources)

AskAt(q, pc) == asking[q].pc = pc
AskGoes(q, call) == asking' = [asking EXCEPT ![q] = call]
NewRow(by, domain, status) ==
    [status |-> status, by |-> by, domain |-> domain, sources |-> {}, answer |-> NoAnswer]

StartQuery(q, by, domain) ==
    /\ queries[q] = NoQuery /\ AskAt(q, "none")
    /\ queries' = [queries EXCEPT ![q] = NewRow(by, domain, "pending")]
    /\ AskGoes(q, [pc |-> "search"])
    /\ UNCHANGED aged

\* The search answers. Nothing to insert is an error for the brain, whose INSERT
\* has no values then; the route goes on without an answer.
SearchAnswers(q, found) ==
    /\ AskAt(q, "search")
    /\ AskGoes(q, IF found # {} THEN [pc |-> "sources", found |-> found]
             ELSE [pc |-> IF queries[q].by = "route" THEN "complete" ELSE "error"])
    /\ UNCHANGED <<queries, aged>>

\* The worker has searched before it makes a row, completed from the start.
StartWorkerQuery(q, domain, found) ==
    /\ queries[q] = NoQuery /\ AskAt(q, "none")
    /\ queries' = [queries EXCEPT ![q] = NewRow("worker", domain, "completed")]
    /\ AskGoes(q, IF found = {} THEN NotAsking ELSE [pc |-> "sources", found |-> found])
    /\ UNCHANGED aged

\* A worker's answer cites the rows that were inserted.
InsertSources(q) ==
    /\ AskAt(q, "sources")
    /\ queries' = [queries EXCEPT ![q].sources = asking[q].found]
    /\ AskGoes(q, IF queries[q].by = "worker"
             THEN [pc |-> "answer", answer |-> sourceListOnlyAnswer(asking[q].found)]
             ELSE [pc |-> "compose"])
    /\ UNCHANGED aged

ComposeAnswer(q, cited, limited) ==
    /\ AskAt(q, "compose")
    /\ AskGoes(q, [pc |-> "answer", answer |->
         Composed([kind |-> "synthesized", citations |-> cited, limited |-> limited],
                  queries[q].sources, queries[q].domain)])
    /\ UNCHANGED <<queries, aged>>

InsertAnswer(q) ==
    /\ AskAt(q, "answer")
    /\ queries' = [queries EXCEPT ![q].answer = asking[q].answer]
    /\ AskGoes(q, IF queries[q].by = "worker" THEN NotAsking ELSE [pc |-> "complete"])
    /\ UNCHANGED aged

CompleteQuery(q) ==
    /\ AskAt(q, "complete")
    /\ queries' = [queries EXCEPT ![q].status = "completed"]
    /\ AskGoes(q, NotAsking)
    /\ UNCHANGED aged

\* The budget is spent, the provider is not configured, the model or a statement
\* fails: the call goes on in its catch, of which the worker has none.
QueryFails(q) ==
    /\ ~AskAt(q, "none") /\ ~AskAt(q, "error")
    /\ AskGoes(q, IF queries[q].by = "worker" THEN NotAsking ELSE [pc |-> "error"])
    /\ UNCHANGED <<queries, aged>>

MarkQueryFailed(q) ==
    /\ AskAt(q, "error")
    /\ queries' = [queries EXCEPT ![q].status =
         IF queries[q].by = "brain" THEN "failed" ELSE "skipped"]
    /\ AskGoes(q, NotAsking)
    /\ UNCHANGED aged

ProcessDies(q) == ~AskAt(q, "none") /\ AskGoes(q, NotAsking) /\ UNCHANGED <<queries, aged>>

SourcesAge(q) ==
    /\ queries[q] # NoQuery /\ aged' = aged \cup {q} /\ UNCHANGED <<queries, asking>>

-----------------------------------------------------------------------------

ResearchNext == \E q \in QueryIds :
    \/ \E by \in {"brain", "route"}, domain \in Domains : StartQuery(q, by, domain)
    \/ \E domain \in Domains, found \in SUBSET FoundUrls : StartWorkerQuery(q, domain, found)
    \/ \E found \in SUBSET FoundUrls : SearchAnswers(q, found)
    \/ InsertSources(q)
    \/ \E cited \in SUBSET CitedUrls, limited \in BOOLEAN : ComposeAnswer(q, cited, limited)
    \/ InsertAnswer(q) \/ CompleteQuery(q)
    \/ QueryFails(q) \/ MarkQueryFailed(q) \/ ProcessDies(q) \/ SourcesAge(q)

-----------------------------------------------------------------------------
(* Properties *)

\* buildResearchReportPack makes a pack of the answer, or refuses its citations.
ReportPackBuilt(q) ==
    LET row == queries[q] IN
    row.answer.citations # {} => Validated(row.answer, row.sources, row.domain, q \in aged)

\* An answer cites stored sources only, and a synthesized one has its report pack as long
\* as its sources have not aged (a list of sources may have none). A query a caller was
\* told is completed has the answer to what was found, if it was not a worker's, which
\* is completed before its rows are written.
AnswersAreSourceBacked == \A q \in QueryIds : queries[q] # NoQuery =>
    LET row == queries[q] IN
    /\ row.answer # NoAnswer => row.answer.citations \subseteq row.sources
    /\ row.answer.kind = "synthesized" => q \in aged \/ ReportPackBuilt(q)
    /\ row.status = "completed" /\ row.by # "worker" /\ row.sources # {} => row.answer # NoAnswer
=============================================================================
