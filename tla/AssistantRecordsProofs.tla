---------------------- MODULE AssistantRecordsProofs ----------------------
(***************************************************************************)
(* Theorems about the services of the assistant (AssistantServices) that keep  *)
(* its records, for every set of leads, sessions, tasks, files and calls: leads,  *)
(* research and drafts, days, reports and notifications, the bucket and Redis.  *)
(* As in AssistantServicesProofs, a section shows that the inductive invariant of *)
(* a service holds initially and that a step of it keeps it, and LiftRecords that a *)
(* step of the services is a step of each or leaves its variables alone. The last *)
(* section types the variables of all the services.                          *)
(***************************************************************************)
EXTENDS AssistantServicesProofs

-----------------------------------------------------------------------------
(* InvestorLeads: a lead's email is that of a stored source, whatever a merge and *)
(* a research overwrite.                                                     *)

LeadRows == [duplicate : {"unique", "candidate_duplicate", "merged"}, email : Leads \cup {"none"},
             emailStatus : {"unknown", "source_backed"}]
SourceRows == [of : Leads, email : BOOLEAN]
LeadCallTypes == {NoLeadCall}
    \cup [pc : {"lead"}, duplicate : {"unique", "candidate_duplicate"}]
    \cup [pc : {"source"}, lead : Leads] \cup [pc : {"contact"}, lead : Leads, email : BOOLEAN]
    \cup [pc : {"move", "target"}, lead : Leads, target : Leads, read : LeadRows, other : LeadRows]
    \cup [pc : {"merged"}, lead : Leads]

Told(what, i) == <<what, i>> \in noted
EmailStored(i) == sources[i] # NoSource /\ sources[i].email
UniqueStored(i) == LeadStored(i) /\ leads[i].duplicate = "unique"

\* A row, stored or read: its email, its status and its source are of one piece.
ContactOK(row) ==
    /\ row.email # "none" <=> row.emailStatus = "source_backed"
    /\ row.email # "none" => EmailStored(row.email)

\* What is left of a lead whose sources a merge has moved away.
Moved(i) == SourcesOf(i) # {} => Told("target", i) \/ Told("late", i)
Apart(i) == Told("raced", i) \/ Told("dismissed", i)

LeadCallOK(call) ==
    /\ call.pc = "lead" /\ call.duplicate = "unique" => \A j \in Leads : UniqueStored(j) => Apart(j)
    /\ call.pc \notin {"none", "lead"} => LeadStored(call.lead)
    /\ call.pc = "source" => sources[call.lead] = NoSource
    /\ call.pc = "contact" /\ call.email => EmailStored(call.lead)
    /\ call.pc \in {"move", "target"} =>
         /\ ContactOK(call.read) /\ ContactOK(call.other)
         /\ LeadStored(call.target) /\ Told("target", call.target) /\ call.lead # call.target
    /\ call.pc \in {"target", "merged"} => Moved(call.lead)

LeadShape ==
    /\ leads \in [Leads -> LeadRows \cup {NoLead}] /\ sources \in [Leads -> SourceRows \cup {NoSource}]
    /\ leadCalls \in [LeadCalls -> LeadCallTypes] /\ noted \subseteq Notes \X Leads

LeadRowOK(i) ==
    /\ sources[i] # NoSource => LeadStored(i)
    /\ LeadStored(i) => ContactOK(leads[i])
    /\ LeadStored(i) /\ leads[i].duplicate = "merged" => Moved(i)

LeadInv ==
    /\ \A i \in Leads : LeadRowOK(i)
    /\ \A c \in LeadCalls : LeadCallOK(leadCalls[c])
    /\ \A c, d \in LeadCalls : c # d /\ LeadAt(c, "source") /\ LeadAt(d, "source") =>
         leadCalls[c].lead # leadCalls[d].lead
    /\ OneUniqueLead

LeadGrows ==
    /\ \A i \in Leads : LeadStored(i) => LeadStored(i)'
    /\ \A i \in Leads : EmailStored(i) => EmailStored(i)'
    /\ noted \subseteq noted'

LEMMA LeadTyped ==
  /\ NoLead \notin LeadRows /\ NoSource \notin SourceRows
  /\ \A call \in LeadCallTypes :
       /\ call.pc = "none" <=> call = NoLeadCall
       /\ call.pc \in {"none", "lead", "source", "contact", "move", "target", "merged"}
       /\ call.pc \notin {"none", "lead"} => call.lead \in Leads
       /\ call.pc = "lead" => call.duplicate \in {"unique", "candidate_duplicate"}
       /\ call.pc = "contact" => call.email \in BOOLEAN
       /\ call.pc \in {"move", "target"} => call \in
            [pc : {"move", "target"}, lead : Leads, target : Leads, read : LeadRows, other : LeadRows]
<1>1. NoLead \notin LeadRows
  <2>. SUFFICES ASSUME NoLead \in LeadRows PROVE FALSE
    OBVIOUS
  <2>1. NoLead.duplicate \in {"unique", "candidate_duplicate", "merged"} /\ NoLead.duplicate = "none"
    BY DEF LeadRows, NoLead
  <2>. QED
    BY <2>1
<1>2. NoSource \notin SourceRows
  <2>. SUFFICES ASSUME NoSource \in SourceRows PROVE FALSE
    OBVIOUS
  <2>1. NoSource.of \in Leads /\ NoSource.of = "none"
    BY DEF SourceRows, NoSource
  <2>. QED
    BY <2>1, LeadAssumption
<1>. QED
  BY <1>1, <1>2 DEF LeadCallTypes, NoLeadCall

LEMMA ContactStays ==
  ASSUME LeadGrows, NEW row \in LeadRows, ContactOK(row)
  PROVE  ContactOK(row)'
BY DEF LeadGrows, LeadRows, ContactOK

\* A call is as it was while another takes a step.
LEMMA LeadCallStays ==
  ASSUME LeadGrows, NEW call \in LeadCallTypes, LeadCallOK(call),
         call.pc = "lead" => \A j \in Leads : UniqueStored(j)' => UniqueStored(j) \/ Apart(j)',
         call.pc = "source" => sources'[call.lead] = sources[call.lead],
         call.pc \in {"target", "merged"} => (Moved(call.lead) => Moved(call.lead)')
  PROVE  LeadCallOK(call)'
<1>1. \A what, i : Told(what, i) => Told(what, i)'
  BY DEF LeadGrows, Told
<1>2. call.pc = "lead" /\ call.duplicate = "unique" => \A j \in Leads : UniqueStored(j)' => Apart(j)'
  BY <1>1 DEF LeadCallOK, Apart
<1>3. call.pc \notin {"none", "lead"} => LeadStored(call.lead)'
  BY LeadTyped DEF LeadCallOK, LeadGrows
<1>4. call.pc = "source" => sources'[call.lead] = NoSource
  BY DEF LeadCallOK
<1>5. call.pc = "contact" /\ call.email => EmailStored(call.lead)'
  BY LeadTyped DEF LeadCallOK, LeadGrows
<1>6. ASSUME call.pc \in {"move", "target"}
      PROVE  /\ ContactOK(call.read)' /\ ContactOK(call.other)'
             /\ LeadStored(call.target)' /\ Told("target", call.target)' /\ call.lead # call.target
  <2>1. call.read \in LeadRows /\ call.other \in LeadRows /\ call.target \in Leads
    BY <1>6, LeadTyped
  <2>2. /\ ContactOK(call.read) /\ ContactOK(call.other)
        /\ LeadStored(call.target) /\ Told("target", call.target) /\ call.lead # call.target
    BY <1>6 DEF LeadCallOK
  <2>3. LeadStored(call.target)'
    BY <2>1, <2>2 DEF LeadGrows
  <2>. QED
    BY <1>1, <2>1, <2>2, <2>3, ContactStays
<1>7. call.pc \in {"target", "merged"} => Moved(call.lead)'
  BY DEF LeadCallOK
<1>. QED
  BY <1>2, <1>3, <1>4, <1>5, <1>6, <1>7 DEF LeadCallOK

\* Only one lead, i, may become unique without being told apart.
LEMMA UniqueStays ==
  ASSUME OneUniqueLead, noted \subseteq noted', NEW i \in Leads,
         \A j \in Leads : UniqueStored(j)' => UniqueStored(j) \/ Apart(j)'
                                              \/ (j = i /\ \A k \in Leads : UniqueStored(k) => Apart(k))
  PROVE  OneUniqueLead'
<1>1. \A j : Apart(j) => Apart(j)'
  BY DEF Apart, Told
<1>2. \A j, k \in Leads : j # k /\ UniqueStored(j) /\ UniqueStored(k) => Apart(j) \/ Apart(k)
  BY DEF OneUniqueLead, UniqueStored, Apart, Told
<1>3. \A j, k \in Leads : j # k /\ UniqueStored(j)' /\ UniqueStored(k)' => Apart(j)' \/ Apart(k)'
  BY <1>1, <1>2
<1>. QED
  BY <1>3 DEF OneUniqueLead, UniqueStored, Apart, Told

LEMMA LeadStep == LeadShape /\ LeadInv /\ [LeadNext]_leadVars => LeadShape' /\ LeadInv'
<1>. SUFFICES ASSUME LeadShape, LeadInv, [LeadNext]_leadVars PROVE LeadShape' /\ LeadInv'
  OBVIOUS
<1>0. /\ leads \in [Leads -> LeadRows \cup {NoLead}] /\ sources \in [Leads -> SourceRows \cup {NoSource}]
      /\ leadCalls \in [LeadCalls -> LeadCallTypes] /\ noted \subseteq Notes \X Leads
      /\ \A i \in Leads : LeadRowOK(i)
      /\ \A c \in LeadCalls : LeadCallOK(leadCalls[c])
      /\ \A c, d \in LeadCalls : c # d /\ LeadAt(c, "source") /\ LeadAt(d, "source") =>
           leadCalls[c].lead # leadCalls[d].lead
      /\ OneUniqueLead
  BY DEF LeadShape, LeadInv
\* A step of one call.
<1>a. ASSUME NEW c \in LeadCalls, NEW call \in LeadCallTypes, leadCalls' = [leadCalls EXCEPT ![c] = call],
             leads' \in [Leads -> LeadRows \cup {NoLead}], sources' \in [Leads -> SourceRows \cup {NoSource}],
             noted' \subseteq Notes \X Leads, LeadGrows, LeadCallOK(call)', OneUniqueLead',
             \A i \in Leads : LeadRowOK(i)',
             (\E d \in LeadCalls \ {c} : LeadAt(d, "lead")) =>
                \A j \in Leads : UniqueStored(j)' => UniqueStored(j) \/ Apart(j)',
             \A d \in LeadCalls \ {c} : LeadAt(d, "source") =>
                /\ sources'[leadCalls[d].lead] = sources[leadCalls[d].lead]
                /\ call.pc = "source" => leadCalls[d].lead # call.lead,
             \A i \in Leads : MovedAway(i) /\ Moved(i) => Moved(i)'
      PROVE  LeadShape' /\ LeadInv'
  <2>1. LeadShape'
    BY <1>0, <1>a DEF LeadShape
  <2>2. \A d \in LeadCalls : leadCalls'[d] = IF d = c THEN call ELSE leadCalls[d]
    BY <1>0, <1>a
  <2>3. ASSUME NEW d \in LeadCalls PROVE LeadCallOK(leadCalls[d])'
    <3>1. CASE d = c
      <4>1. leadCalls'[d] = call
        BY <2>2, <3>1
      <4>. QED
        BY <1>a, <4>1 DEF LeadCallOK, LeadStored, EmailStored, ContactOK, Told, Moved, UniqueStored, Apart, SourcesOf
    <3>2. CASE d # c
      <4>. SUFFICES ASSUME NEW CONSTANT old, old = leadCalls[d], old = leadCalls'[d]
                    PROVE  LeadCallOK(old)'
        BY <2>2, <3>2 DEF LeadCallOK
      <4>1. old \in LeadCallTypes /\ LeadCallOK(old)
        BY <1>0
      <4>2. old.pc = "lead" => \A j \in Leads : UniqueStored(j)' => UniqueStored(j) \/ Apart(j)'
        BY <1>a, <3>2 DEF LeadAt
      <4>3. old.pc = "source" => sources'[old.lead] = sources[old.lead]
        BY <1>a, <3>2 DEF LeadAt
      <4>4. old.pc \in {"target", "merged"} => (Moved(old.lead) => Moved(old.lead)')
        <5>1. old.pc \in {"target", "merged"} => old.lead \in Leads /\ MovedAway(old.lead)
          BY <4>1, LeadTyped DEF MovedAway
        <5>. QED
          BY <1>a, <5>1
      <4>. QED
        BY <1>a, <4>1, <4>2, <4>3, <4>4, LeadCallStays
    <3>. QED
      BY <3>1, <3>2
  <2>4. \A d, e \in LeadCalls : d # e /\ leadCalls'[d].pc = "source" /\ leadCalls'[e].pc = "source" =>
           leadCalls'[d].lead # leadCalls'[e].lead
    BY <1>0, <1>a, <2>2 DEF LeadAt
  <2>. QED
    BY <1>a, <2>1, <2>3, <2>4 DEF LeadInv, LeadAt
\* Leads and sources stay.
<1>b. ASSUME NEW c \in LeadCalls, NEW call \in LeadCallTypes, leadCalls' = [leadCalls EXCEPT ![c] = call],
             UNCHANGED leadRows, noted \subseteq noted', noted' \subseteq Notes \X Leads,
             LeadCallOK(call)', call.pc # "source"
      PROVE  LeadShape' /\ LeadInv'
  <2>1. LeadGrows
    BY <1>b DEF LeadGrows, leadRows, LeadStored, EmailStored
  <2>2. \A i : /\ SourcesOf(i)' = SourcesOf(i) /\ (Moved(i) => Moved(i)')
               /\ UniqueStored(i)' <=> UniqueStored(i)
    BY <1>b DEF leadRows, SourcesOf, Moved, Told, UniqueStored, LeadStored
  <2>3. \A i \in Leads : LeadRowOK(i)'
    BY <1>0, <1>b, <2>2 DEF LeadRowOK, leadRows, LeadStored, ContactOK, EmailStored
  <2>4. OneUniqueLead'
    <3>1. ASSUME NEW i \in Leads PROVE OneUniqueLead'
      BY <1>0, <1>b, <2>2, UniqueStays
    <3>2. CASE Leads = {}
      BY <3>2 DEF OneUniqueLead
    <3>. QED
      BY <3>1, <3>2
  <2>. QED
    BY <1>0, <1>a, <1>b, <2>1, <2>2, <2>3, <2>4 DEF leadRows
<1>1. ASSUME NEW c \in LeadCalls, DetectDuplicate(c)
      PROVE  LeadShape' /\ LeadInv'
  <2>. SUFFICES ASSUME NEW CONSTANT status, status = DuplicateStatus,
                       NEW CONSTANT call, call = [pc |-> "lead", duplicate |-> status]
                PROVE  LeadShape' /\ LeadInv'
    OBVIOUS
  <2>1. leadCalls' = [leadCalls EXCEPT ![c] = call] /\ UNCHANGED <<leads, sources, noted>>
    BY <1>1 DEF DetectDuplicate, LeadStart, LeadSet, leadRows
  <2>2. call \in LeadCallTypes
    BY DEF LeadCallTypes, DuplicateStatus
  <2>3. LeadCallOK(call)'
    BY <2>1 DEF LeadCallOK, DuplicateStatus, UniqueStored, LeadStored
  <2>. QED
    BY <1>0, <1>b, <2>1, <2>2, <2>3 DEF leadRows
<1>2. ASSUME NEW c \in LeadCalls, InsertLead(c)
      PROVE  LeadShape' /\ LeadInv'
  <2>1. PICK i \in Leads :
          /\ ~LeadStored(i)
          /\ leads' = [leads EXCEPT ![i] =
               [duplicate |-> leadCalls[c].duplicate, email |-> "none", emailStatus |-> "unknown"]]
          /\ leadCalls' = [leadCalls EXCEPT ![c] = [pc |-> "source", lead |-> i]]
          /\ noted' = noted \cup
               IF \E d \in LeadCalls \ {c} : LeadAt(d, "lead") THEN {<<"raced", i>>} ELSE {}
    BY <1>2 DEF InsertLead, LeadSet
  <2>2. leadCalls[c].pc = "lead" /\ UNCHANGED sources
    BY <1>2 DEF InsertLead, LeadAt
  <2>. SUFFICES ASSUME NEW CONSTANT row, row =
                         [duplicate |-> leadCalls[c].duplicate, email |-> "none", emailStatus |-> "unknown"],
                       NEW CONSTANT call, call = [pc |-> "source", lead |-> i]
                PROVE  LeadShape' /\ LeadInv'
    OBVIOUS
  <2>3. leadCalls[c].duplicate \in {"unique", "candidate_duplicate"}
    BY <1>0, <2>2, LeadTyped
  <2>4. row \in LeadRows /\ row # NoLead /\ row.duplicate # "merged" /\ row.email = "none"
        /\ row.emailStatus = "unknown"
    BY <2>3, LeadTyped DEF LeadRows
  <2>5. call \in LeadCallTypes
    BY DEF LeadCallTypes
  <2>6. leads' \in [Leads -> LeadRows \cup {NoLead}] /\ \A j \in Leads : leads'[j] = IF j = i THEN row ELSE leads[j]
    BY <1>0, <2>1, <2>4
  <2>7. noted' \subseteq Notes \X Leads /\ noted \subseteq noted'
    BY <1>0, <2>1 DEF Notes
  <2>8. LeadGrows
    BY <2>1, <2>2, <2>4, <2>6, <2>7 DEF LeadGrows, LeadStored, EmailStored
  <2>9. sources[i] = NoSource
    BY <1>0, <2>1 DEF LeadRowOK
  <2>10. LeadCallOK(call)'
    BY <2>2, <2>4, <2>6, <2>9 DEF LeadCallOK, LeadStored
  <2>11. \A j : Moved(j) => Moved(j)'
    BY <2>2, <2>7 DEF Moved, SourcesOf, Told
  <2>12. ASSUME NEW j \in Leads PROVE LeadRowOK(j)'
    <3>1. CASE j = i
      <4>1. leads'[j] = row /\ sources'[j] = NoSource
        BY <2>2, <2>6, <2>9, <3>1
      <4>. QED
        BY <2>4, <4>1 DEF LeadRowOK, LeadStored, ContactOK
    <3>2. CASE j # i
      <4>1. leads'[j] = leads[j] /\ LeadRowOK(j)
        BY <1>0, <2>6, <3>2
      <4>. QED
        BY <2>2, <2>11, <4>1 DEF LeadRowOK, LeadStored, ContactOK, EmailStored
    <3>. QED
      BY <3>1, <3>2
  <2>13. \A j \in Leads : UniqueStored(j)' => UniqueStored(j) \/ (j = i /\ row.duplicate = "unique")
    BY <2>6 DEF UniqueStored, LeadStored
  <2>14. row.duplicate = "unique" => \A k \in Leads : UniqueStored(k) => Apart(k)
    BY <1>0, <2>2 DEF LeadCallOK
  <2>15. OneUniqueLead'
    BY <1>0, <2>7, <2>13, <2>14, UniqueStays
  <2>16. (\E d \in LeadCalls \ {c} : LeadAt(d, "lead")) =>
            \A j \in Leads : UniqueStored(j)' => UniqueStored(j) \/ Apart(j)'
    BY <2>1, <2>13 DEF Apart, Told
  <2>17. ASSUME NEW d \in LeadCalls \ {c}, LeadAt(d, "source")
         PROVE  sources'[leadCalls[d].lead] = sources[leadCalls[d].lead] /\ leadCalls[d].lead # call.lead
    <3>1. LeadStored(leadCalls[d].lead)
      BY <1>0, <2>17 DEF LeadCallOK, LeadAt
    <3>. QED
      BY <2>1, <2>2, <3>1
  <2>18. sources' \in [Leads -> SourceRows \cup {NoSource}] /\ leadCalls' = [leadCalls EXCEPT ![c] = call]
    BY <1>0, <2>1, <2>2
  <2>19. leads' \in [Leads -> LeadRows \cup {NoLead}] /\ noted' \subseteq Notes \X Leads
    BY <2>6, <2>7
  <2>. QED
    BY <1>a, <2>5, <2>8, <2>10, <2>11, <2>12, <2>15, <2>16, <2>17, <2>18, <2>19
<1>3. ASSUME NEW c \in LeadCalls, NEW email \in BOOLEAN, InsertSource(c, email)
      PROVE  LeadShape' /\ LeadInv'
  <2>. SUFFICES ASSUME NEW CONSTANT i, i = leadCalls[c].lead,
                       NEW CONSTANT call, call = [pc |-> "contact", lead |-> i, email |-> email],
                       NEW CONSTANT row, row = [of |-> i, email |-> email]
                PROVE  LeadShape' /\ LeadInv'
    OBVIOUS
  <2>1. /\ leadCalls[c].pc = "source" /\ sources' = [sources EXCEPT ![i] = row]
        /\ leadCalls' = [leadCalls EXCEPT ![c] = call] /\ UNCHANGED leads
        /\ noted' = noted \cup IF MovedAway(i) THEN {<<"late", i>>} ELSE {}
    BY <1>3 DEF InsertSource, LeadAt, LeadSet
  <2>2. i \in Leads /\ LeadStored(i) /\ sources[i] = NoSource
    BY <1>0, <2>1, LeadTyped DEF LeadCallOK
  <2>3. row \in SourceRows /\ row # NoSource /\ row.of = i /\ row.email = email /\ call \in LeadCallTypes
    BY <2>2, LeadTyped DEF SourceRows, LeadCallTypes
  <2>4. /\ sources' \in [Leads -> SourceRows \cup {NoSource}]
        /\ \A j \in Leads : sources'[j] = IF j = i THEN row ELSE sources[j]
    BY <1>0, <2>1, <2>2, <2>3
  <2>5. noted' \subseteq Notes \X Leads /\ noted \subseteq noted'
    BY <1>0, <2>1, <2>2 DEF Notes
  <2>6. LeadGrows
    BY <2>1, <2>2, <2>4, <2>5 DEF LeadGrows, LeadStored, EmailStored
  <2>7. LeadCallOK(call)'
    BY <2>1, <2>2, <2>3, <2>4 DEF LeadCallOK, LeadStored, EmailStored
  <2>8. \A j \in Leads : j # i => SourcesOf(j)' = SourcesOf(j)
    BY <2>2, <2>3, <2>4 DEF SourcesOf
  <2>9. \A j \in Leads : MovedAway(j) /\ Moved(j) => Moved(j)'
    BY <2>1, <2>5, <2>8 DEF Moved, Told
  <2>10. ASSUME NEW j \in Leads PROVE LeadRowOK(j)'
    <3>1. LeadRowOK(j) /\ leads'[j] = leads[j] /\ leads[j] \in LeadRows \cup {NoLead}
      BY <1>0, <2>1
    <3>2. sources'[j] # NoSource => LeadStored(j)
      BY <2>2, <2>4, <3>1 DEF LeadRowOK
    <3>3. LeadStored(j) => ContactOK(leads[j])'
      <4>. SUFFICES ASSUME NEW CONSTANT old, old = leads[j], old = leads'[j], old \in LeadRows, ContactOK(old)
                    PROVE  ContactOK(old)'
        BY <3>1 DEF LeadRowOK, LeadStored, ContactOK
      <4>. QED
        BY <2>6, ContactStays
    <3>4. LeadStored(j) /\ leads[j].duplicate = "merged" => Moved(j)'
      BY <2>9, <3>1 DEF LeadRowOK, MovedAway
    <3>. QED
      BY <3>1, <3>2, <3>3, <3>4 DEF LeadRowOK, LeadStored, ContactOK
  <2>11. \A j \in Leads : UniqueStored(j)' <=> UniqueStored(j)
    BY <2>1 DEF UniqueStored, LeadStored
  <2>12. OneUniqueLead'
    BY <1>0, <2>2, <2>5, <2>11, UniqueStays
  <2>13. ASSUME NEW d \in LeadCalls \ {c}, LeadAt(d, "source")
         PROVE  sources'[leadCalls[d].lead] = sources[leadCalls[d].lead]
    <3>1. leadCalls[d].lead \in Leads /\ leadCalls[d].lead # i
      BY <1>0, <2>1, <2>13, LeadTyped DEF LeadAt
    <3>. QED
      BY <2>4, <3>1
  <2>14. call.pc # "source" /\ leads' \in [Leads -> LeadRows \cup {NoLead}]
    BY <1>0, <2>1
  <2>15. \A j \in Leads : UniqueStored(j)' => UniqueStored(j) \/ Apart(j)'
    BY <2>11
  <2>16. call \in LeadCallTypes /\ leadCalls' = [leadCalls EXCEPT ![c] = call]
    BY <2>1, <2>3
  <2>17. sources' \in [Leads -> SourceRows \cup {NoSource}]
    BY <2>4
  <2>18. \A d \in LeadCalls \ {c} : LeadAt(d, "source") =>
           /\ sources'[leadCalls[d].lead] = sources[leadCalls[d].lead]
           /\ call.pc = "source" => leadCalls[d].lead # call.lead
    BY <2>13, <2>14
  <2>. QED
    BY <1>a, <2>5, <2>6, <2>7, <2>9, <2>10, <2>12, <2>14, <2>15, <2>16, <2>17, <2>18
\* Only the row of one lead changes, that is stored and keeps its sources.
<1>c. ASSUME NEW c \in LeadCalls, NEW call \in LeadCallTypes, leadCalls' = [leadCalls EXCEPT ![c] = call],
             NEW i \in Leads, NEW row \in LeadRows, LeadStored(i), leads' = [leads EXCEPT ![i] = row],
             UNCHANGED <<sources, noted>>, ContactOK(row), row.duplicate = leads[i].duplicate \/
               (row.duplicate = "merged" /\ Moved(i)),
             LeadCallOK(call), call.pc \in {"none", "merged"}
      PROVE  LeadShape' /\ LeadInv'
  <2>1. leads' \in [Leads -> LeadRows \cup {NoLead}] /\ \A j \in Leads : leads'[j] = IF j = i THEN row ELSE leads[j]
    BY <1>0, <1>c
  <2>2. row # NoLead
    BY LeadTyped
  <2>3. LeadGrows
    BY <1>c, <2>1, <2>2 DEF LeadGrows, LeadStored, EmailStored
  <2>4. /\ \A j : Moved(j)' <=> Moved(j)
        /\ \A x : ContactOK(x)' <=> ContactOK(x)
    BY <1>c DEF Moved, SourcesOf, Told, ContactOK, EmailStored
  <2>5. ASSUME NEW j \in Leads PROVE LeadRowOK(j)'
    <3>1. CASE j = i
      <4>1. leads'[j] = row /\ LeadRowOK(j)
        BY <1>0, <2>1, <3>1
      <4>. QED
        BY <1>c, <2>2, <2>4, <3>1, <4>1 DEF LeadRowOK, LeadStored, ContactOK
    <3>2. CASE j # i
      <4>1. leads'[j] = leads[j] /\ LeadRowOK(j)
        BY <1>0, <2>1, <3>2
      <4>. QED
        BY <1>c, <2>4, <4>1 DEF LeadRowOK, LeadStored, ContactOK, EmailStored
    <3>. QED
      BY <3>1, <3>2
  <2>6. \A j \in Leads : UniqueStored(j)' => UniqueStored(j)
    BY <1>c, <2>1 DEF UniqueStored, LeadStored
  <2>7. OneUniqueLead'
    BY <1>0, <1>c, <2>6, UniqueStays
  <2>8. LeadCallOK(call)'
    BY <1>c, <2>3, LeadCallStays, <2>4
  <2>. QED
    BY <1>0, <1>a, <1>c, <2>1, <2>3, <2>4, <2>5, <2>6, <2>7, <2>8
<1>n. NoLeadCall \in LeadCallTypes /\ LeadCallOK(NoLeadCall) /\ NoLeadCall.pc = "none"
  BY DEF LeadCallTypes, NoLeadCall, LeadCallOK
<1>4. ASSUME NEW c \in LeadCalls, UpdateContact(c)
      PROVE  LeadShape' /\ LeadInv'
  <2>. SUFFICES ASSUME NEW CONSTANT i, i = leadCalls[c].lead,
                       NEW CONSTANT found, found = leadCalls[c].email,
                       NEW CONSTANT row, row = [leads[i] EXCEPT
                         !.email = IF found THEN i ELSE "none",
                         !.emailStatus = IF found THEN "source_backed" ELSE "unknown"]
                PROVE  LeadShape' /\ LeadInv'
    OBVIOUS
  <2>1. /\ leadCalls[c].pc = "contact" /\ leads' = [leads EXCEPT ![i] = row]
        /\ leadCalls' = [leadCalls EXCEPT ![c] = NoLeadCall] /\ UNCHANGED <<sources, noted>>
    BY <1>4 DEF UpdateContact, LeadAt, LeadDone, LeadSet
  <2>2. i \in Leads /\ LeadStored(i) /\ (found => EmailStored(i)) /\ found \in BOOLEAN
    BY <1>0, <2>1, LeadTyped DEF LeadCallOK
  <2>3. leads[i] \in LeadRows
    BY <1>0, <2>2 DEF LeadStored
  <2>4. /\ row \in LeadRows /\ row.duplicate = leads[i].duplicate
        /\ row.email = IF found THEN i ELSE "none"
        /\ row.emailStatus = IF found THEN "source_backed" ELSE "unknown"
    BY <2>2, <2>3 DEF LeadRows
  <2>5. ContactOK(row)
    BY <2>2, <2>4, LeadAssumption DEF ContactOK
  <2>. QED
    BY <1>c, <1>n, <2>1, <2>2, <2>4, <2>5
<1>5. ASSUME NEW c \in LeadCalls, NEW i \in Leads, NEW j \in Leads, StartMerge(c, i, j)
      PROVE  LeadShape' /\ LeadInv'
  <2>. SUFFICES ASSUME NEW CONSTANT read, read = leads[j], NEW CONSTANT other, other = leads[i],
                       NEW CONSTANT call,
                       call = [pc |-> "move", lead |-> i, target |-> j, read |-> read, other |-> other]
                PROVE  LeadShape' /\ LeadInv'
    OBVIOUS
  <2>1. /\ i # j /\ LeadStored(i) /\ LeadStored(j) /\ noted' = noted \cup {<<"target", j>>}
        /\ leadCalls' = [leadCalls EXCEPT ![c] = call] /\ UNCHANGED <<leads, sources>>
    BY <1>5 DEF StartMerge, LeadStart, LeadSet, leadRows
  <2>2. read \in LeadRows /\ other \in LeadRows /\ ContactOK(read) /\ ContactOK(other)
    BY <1>0, <2>1 DEF LeadStored, LeadRowOK
  <2>3. call \in LeadCallTypes
    BY <2>2 DEF LeadCallTypes
  <2>4. ContactOK(read)' /\ ContactOK(other)' /\ LeadStored(i)' /\ LeadStored(j)' /\ Told("target", j)'
    BY <2>1, <2>2 DEF ContactOK, EmailStored, LeadStored, Told
  <2>5. LeadCallOK(call)'
    BY <2>1, <2>4 DEF LeadCallOK
  <2>6. noted \subseteq noted' /\ noted' \subseteq Notes \X Leads /\ UNCHANGED leadRows /\ call.pc # "source"
    BY <1>0, <2>1 DEF leadRows, Notes
  <2>. QED
    BY <1>b, <2>1, <2>3, <2>5, <2>6
<1>6. ASSUME NEW c \in LeadCalls, MoveSources(c)
      PROVE  LeadShape' /\ LeadInv'
  <2>. SUFFICES ASSUME NEW CONSTANT call, call = leadCalls[c],
                       NEW CONSTANT new, new = [call EXCEPT !.pc = "target"]
                PROVE  LeadShape' /\ LeadInv'
    OBVIOUS
  <2>1. /\ call.pc = "move" /\ leadCalls' = [leadCalls EXCEPT ![c] = new] /\ UNCHANGED <<leads, noted>>
        /\ sources' = [s \in Leads |-> IF s \in SourcesOf(call.lead)
                                       THEN [sources[s] EXCEPT !.of = call.target] ELSE sources[s]]
    BY <1>0, <1>6 DEF MoveSources, LeadAt
  <2>2. call \in [pc : {"move", "target"}, lead : Leads, target : Leads, read : LeadRows, other : LeadRows]
        /\ LeadCallOK(call)
    BY <1>0, <2>1, LeadTyped
  <2>3. /\ new \in LeadCallTypes /\ new.pc = "target" /\ new.lead = call.lead /\ new.target = call.target
        /\ new.read = call.read /\ new.other = call.other
    BY <2>2 DEF LeadCallTypes
  <2>4. ASSUME NEW s \in Leads
        PROVE  /\ sources'[s] \in SourceRows \cup {NoSource}
               /\ sources'[s] = NoSource <=> sources[s] = NoSource
               /\ sources[s] # NoSource => sources'[s].email = sources[s].email
               /\ sources[s] # NoSource =>
                    sources'[s].of = IF sources[s].of = call.lead THEN call.target ELSE sources[s].of
    <3>1. CASE s \in SourcesOf(call.lead)
      <4>1. sources[s] \in SourceRows /\ sources[s].of = call.lead
        BY <1>0, <3>1 DEF SourcesOf
      <4>2. sources'[s] = [sources[s] EXCEPT !.of = call.target]
        BY <2>1, <3>1
      <4>3. /\ sources'[s] \in SourceRows /\ sources'[s].email = sources[s].email
            /\ sources'[s].of = call.target
        BY <2>2, <4>1, <4>2 DEF SourceRows
      <4>. QED
        BY <4>1, <4>3, LeadTyped
    <3>2. CASE s \notin SourcesOf(call.lead)
      <4>1. sources'[s] = sources[s] /\ sources[s] \in SourceRows \cup {NoSource}
        BY <1>0, <2>1, <3>2
      <4>2. sources[s] # NoSource => sources[s].of # call.lead
        BY <3>2 DEF SourcesOf
      <4>. QED
        BY <4>1, <4>2
    <3>. QED
      BY <3>1, <3>2
  <2>5. sources' \in [Leads -> SourceRows \cup {NoSource}]
    BY <2>1, <2>4
  <2>6. LeadGrows
    BY <2>1, <2>4 DEF LeadGrows, LeadStored, EmailStored
  <2>7. call.lead # call.target /\ Told("target", call.target) /\ call.lead \in Leads /\ call.target \in Leads
    BY <2>1, <2>2 DEF LeadCallOK
  <2>8. SourcesOf(call.lead)' = {}
    BY <2>4, <2>7 DEF SourcesOf
  <2>9. \A j \in Leads : Moved(j) => Moved(j)'
    <3>. SUFFICES ASSUME NEW j \in Leads, Moved(j), SourcesOf(j)' # {}
                  PROVE  Told("target", j)' \/ Told("late", j)'
      BY DEF Moved
    <3>1. CASE j = call.target
      BY <2>1, <2>7, <3>1 DEF Told
    <3>2. CASE j # call.target
      <4>1. SourcesOf(j) # {}
        BY <2>4, <3>2 DEF SourcesOf
      <4>. QED
        BY <2>1, <4>1 DEF Moved, Told
    <3>. QED
      BY <3>1, <3>2
  <2>10. LeadCallOK(new)'
    <3>1. Moved(call.lead)'
      BY <2>8 DEF Moved
    <3>2. /\ ContactOK(call.read) /\ ContactOK(call.other) /\ LeadStored(call.target) /\ LeadStored(call.lead)
      BY <2>1, <2>2 DEF LeadCallOK
    <3>3. ContactOK(call.read)' /\ ContactOK(call.other)'
      BY <2>2, <2>6, <3>2, ContactStays
    <3>. QED
      BY <2>1, <2>3, <2>7, <3>1, <3>2, <3>3 DEF LeadCallOK, LeadStored, Told
  <2>11. ASSUME NEW j \in Leads PROVE LeadRowOK(j)'
    <3>1. LeadRowOK(j) /\ leads'[j] = leads[j] /\ leads[j] \in LeadRows \cup {NoLead}
      BY <1>0, <2>1
    <3>2. sources'[j] # NoSource => LeadStored(j)
      BY <2>4, <3>1 DEF LeadRowOK
    <3>3. LeadStored(j) => ContactOK(leads[j])'
      <4>. SUFFICES ASSUME NEW CONSTANT old, old = leads[j], old = leads'[j], old \in LeadRows, ContactOK(old)
                    PROVE  ContactOK(old)'
        BY <3>1 DEF LeadRowOK, LeadStored, ContactOK
      <4>. QED
        BY <2>6, ContactStays
    <3>4. LeadStored(j) /\ leads[j].duplicate = "merged" => Moved(j)'
      BY <2>9, <3>1 DEF LeadRowOK
    <3>. QED
      BY <3>1, <3>2, <3>3, <3>4 DEF LeadRowOK, LeadStored, ContactOK
  <2>12. \A j \in Leads : UniqueStored(j)' <=> UniqueStored(j)
    BY <2>1 DEF UniqueStored, LeadStored
  <2>13. OneUniqueLead'
    BY <1>0, <2>1, <2>7, <2>12, UniqueStays
  <2>14. ASSUME NEW d \in LeadCalls \ {c}, LeadAt(d, "source")
         PROVE  sources'[leadCalls[d].lead] = sources[leadCalls[d].lead]
    <3>1. leadCalls[d].lead \in Leads /\ sources[leadCalls[d].lead] = NoSource
      BY <1>0, <2>14, LeadTyped DEF LeadAt, LeadCallOK
    <3>. QED
      BY <2>4, <3>1
  <2>. QED
    BY <1>0, <1>a, <2>1, <2>3, <2>5, <2>6, <2>9, <2>10, <2>11, <2>12, <2>13, <2>14
<1>7. ASSUME NEW c \in LeadCalls, UpdateTarget(c)
      PROVE  LeadShape' /\ LeadInv'
  <2>. SUFFICES ASSUME NEW CONSTANT call, call = leadCalls[c], NEW CONSTANT i, i = call.target,
                       NEW CONSTANT target, target = call.read, NEW CONSTANT other, other = call.other,
                       NEW CONSTANT new, new = [pc |-> "merged", lead |-> call.lead],
                       NEW CONSTANT email,
                       email = IF target.email # "none" THEN target.email ELSE other.email,
                       NEW CONSTANT status, status = MergedStatus(target, other)
                PROVE  LeadShape' /\ LeadInv'
    OBVIOUS
  <2>. SUFFICES ASSUME NEW CONSTANT row,
                       row = [leads[i] EXCEPT !.email = email, !.emailStatus = status]
                PROVE  LeadShape' /\ LeadInv'
    OBVIOUS
  <2>1. /\ call.pc = "target" /\ leads' = [leads EXCEPT ![i] = row]
        /\ leadCalls' = [leadCalls EXCEPT ![c] = new] /\ UNCHANGED <<sources, noted>>
    BY <1>7 DEF UpdateTarget, LeadAt, LeadSet
  <2>2. /\ call \in [pc : {"move", "target"}, lead : Leads, target : Leads, read : LeadRows, other : LeadRows]
        /\ ContactOK(target) /\ ContactOK(other) /\ LeadStored(i) /\ Moved(call.lead) /\ LeadStored(call.lead)
    BY <1>0, <2>1, LeadTyped DEF LeadCallOK
  <2>3. leads[i] \in LeadRows /\ target \in LeadRows /\ other \in LeadRows /\ i \in Leads /\ call.lead \in Leads
    BY <1>0, <2>2 DEF LeadStored
  <2>4. /\ row \in LeadRows /\ row.duplicate = leads[i].duplicate
        /\ row.email = email /\ row.emailStatus = status
    <3>1. email \in Leads \cup {"none"}
      BY <2>3 DEF LeadRows
    <3>2. status \in {"unknown", "source_backed"}
      BY <2>3 DEF LeadRows, MergedStatus
    <3>3. \A old \in LeadRows : LET x == [old EXCEPT !.email = email, !.emailStatus = status] IN
            x \in LeadRows /\ x.duplicate = old.duplicate /\ x.email = email /\ x.emailStatus = status
      BY <3>1, <3>2 DEF LeadRows
    <3>. QED
      BY <2>3, <3>3
  <2>5. ContactOK(row)
    <3>1. email # "none" => EmailStored(email)
      BY <2>2 DEF ContactOK
    <3>2. email # "none" <=> status = "source_backed"
      BY <2>2 DEF ContactOK, MergedStatus
    <3>. QED
      BY <2>4, <3>1, <3>2 DEF ContactOK
  <2>6. new \in LeadCallTypes /\ LeadCallOK(new) /\ new.pc = "merged"
    BY <2>2, <2>3 DEF LeadCallTypes, LeadCallOK
  <2>7. /\ leadCalls' = [leadCalls EXCEPT ![c] = new] /\ leads' = [leads EXCEPT ![i] = row]
        /\ UNCHANGED <<sources, noted>> /\ i \in Leads /\ LeadStored(i)
        /\ row \in LeadRows /\ row.duplicate = leads[i].duplicate
    BY <2>1, <2>2, <2>3, <2>4
  <2>. QED
    BY <1>c, <2>5, <2>6, <2>7
<1>8. ASSUME NEW c \in LeadCalls, MarkMerged(c)
      PROVE  LeadShape' /\ LeadInv'
  <2>. SUFFICES ASSUME NEW CONSTANT i, i = leadCalls[c].lead,
                       NEW CONSTANT row, row = [leads[i] EXCEPT !.duplicate = "merged"]
                PROVE  LeadShape' /\ LeadInv'
    OBVIOUS
  <2>1. /\ leadCalls[c].pc = "merged" /\ leads' = [leads EXCEPT ![i] = row]
        /\ leadCalls' = [leadCalls EXCEPT ![c] = NoLeadCall] /\ UNCHANGED <<sources, noted>>
    BY <1>8 DEF MarkMerged, LeadAt, LeadDone, LeadSet
  <2>2. i \in Leads /\ LeadStored(i) /\ Moved(i)
    BY <1>0, <2>1, LeadTyped DEF LeadCallOK
  <2>3. leads[i] \in LeadRows /\ ContactOK(leads[i])
    BY <1>0, <2>2 DEF LeadStored, LeadRowOK
  <2>4. /\ row \in LeadRows /\ row.duplicate = "merged"
        /\ row.email = leads[i].email /\ row.emailStatus = leads[i].emailStatus
    BY <2>3 DEF LeadRows
  <2>5. ContactOK(row)
    BY <2>3, <2>4 DEF ContactOK
  <2>. QED
    BY <1>c, <1>n, <2>1, <2>2, <2>4, <2>5
<1>9. ASSUME NEW i \in Leads, DismissDuplicate(i)
      PROVE  LeadShape' /\ LeadInv'
  <2>. SUFFICES ASSUME NEW CONSTANT row, row = [leads[i] EXCEPT !.duplicate = "unique"]
                PROVE  LeadShape' /\ LeadInv'
    OBVIOUS
  <2>1. /\ LeadStored(i) /\ leads' = [leads EXCEPT ![i] = row] /\ UNCHANGED <<sources, leadCalls>>
        /\ noted' = noted \cup {<<"dismissed", i>>}
    BY <1>9 DEF DismissDuplicate
  <2>2. leads[i] \in LeadRows /\ ContactOK(leads[i])
    BY <1>0, <2>1 DEF LeadStored, LeadRowOK
  <2>3. /\ row \in LeadRows /\ row.duplicate = "unique" /\ row # NoLead
        /\ row.email = leads[i].email /\ row.emailStatus = leads[i].emailStatus
    BY <2>2, LeadTyped DEF LeadRows
  <2>4. leads' \in [Leads -> LeadRows \cup {NoLead}] /\ \A j \in Leads : leads'[j] = IF j = i THEN row ELSE leads[j]
    BY <1>0, <2>1, <2>3
  <2>5. LeadGrows /\ noted' \subseteq Notes \X Leads
    BY <1>0, <2>1, <2>3, <2>4 DEF LeadGrows, LeadStored, EmailStored, Notes
  <2>6. \A j : Moved(j) => Moved(j)'
    BY <2>1 DEF Moved, SourcesOf, Told
  <2>7. \A j \in Leads : UniqueStored(j)' => UniqueStored(j) \/ Apart(j)'
    BY <2>1, <2>4 DEF UniqueStored, LeadStored, Apart, Told
  <2>8. OneUniqueLead'
    BY <1>0, <2>1, <2>7, UniqueStays
  <2>9. ASSUME NEW j \in Leads PROVE LeadRowOK(j)'
    <3>1. LeadRowOK(j)
      BY <1>0
    <3>2. CASE j = i
      <4>1. leads'[j] = row /\ ContactOK(row)
        BY <2>2, <2>3, <2>4, <3>2 DEF ContactOK
      <4>. QED
        BY <2>1, <2>3, <4>1 DEF LeadRowOK, LeadStored, ContactOK, EmailStored
    <3>3. CASE j # i
      <4>1. leads'[j] = leads[j]
        BY <2>4, <3>3
      <4>. QED
        BY <2>1, <2>6, <3>1, <4>1 DEF LeadRowOK, LeadStored, ContactOK, EmailStored
    <3>. QED
      BY <3>2, <3>3
  <2>10. ASSUME NEW c \in LeadCalls PROVE LeadCallOK(leadCalls[c])'
    <3>. SUFFICES ASSUME NEW CONSTANT old, old = leadCalls[c], old = leadCalls'[c]
                  PROVE  LeadCallOK(old)'
      BY <2>1 DEF LeadCallOK
    <3>. QED
      BY <1>0, <2>1, <2>5, <2>6, <2>7, LeadCallStays
  <2>. QED
    BY <1>0, <2>1, <2>4, <2>5, <2>8, <2>9, <2>10 DEF LeadShape, LeadInv, LeadAt
<1>10. CASE UNCHANGED leadVars
  <2>1. UNCHANGED <<leads, sources, leadCalls, noted>>
    BY <1>10 DEF leadVars, leadRows
  <2>2. LeadShape'
    BY <1>0, <2>1 DEF LeadShape
  <2>3. \A i : /\ Moved(i)' <=> Moved(i)
               /\ Apart(i)' <=> Apart(i)
               /\ UniqueStored(i)' <=> UniqueStored(i)
               /\ LeadStored(i)' <=> LeadStored(i)
               /\ EmailStored(i)' <=> EmailStored(i)
    BY <2>1 DEF Moved, SourcesOf, Told, Apart, UniqueStored, LeadStored, EmailStored
  <2>4. \A i \in Leads : LeadRowOK(i)'
    BY <1>0, <2>1, <2>3 DEF LeadRowOK, ContactOK
  <2>5. \A c \in LeadCalls : LeadCallOK(leadCalls[c])'
    BY <1>0, <2>1, <2>3 DEF LeadCallOK, ContactOK, Told
  <2>6. OneUniqueLead'
    BY <1>0, <2>1 DEF OneUniqueLead, LeadStored
  <2>. QED
    BY <1>0, <2>1, <2>2, <2>4, <2>5, <2>6 DEF LeadInv, LeadAt
<1>. QED
  BY <1>1, <1>2, <1>3, <1>4, <1>5, <1>6, <1>7, <1>8, <1>9, <1>10 DEF LeadNext

LEMMA LeadBegins == LeadInit => LeadShape /\ LeadInv
BY LeadTyped DEF LeadInit, LeadShape, LeadInv, LeadRowOK, LeadCallOK, LeadAt, LeadStored, LeadCallTypes,
                 NoLeadCall, OneUniqueLead

LEMMA LeadCorrect == LeadSpec => []LeadsAreSound
<1>1. LeadShape /\ LeadInv => LeadsAreSound
  <2>. SUFFICES ASSUME LeadShape, LeadInv PROVE LeadsAreSound
    OBVIOUS
  <2>1. EmailIsSourced
    BY DEF LeadInv, LeadRowOK, ContactOK, EmailStored, EmailIsSourced
  <2>2. MergedIsSilent
    BY DEF LeadInv, LeadRowOK, Moved, Told, MergedIsSilent
  <2>. QED
    BY <2>1, <2>2 DEF LeadInv, LeadsAreSound
<1>. QED
  BY <1>1, LeadBegins, LeadStep, PTL DEF LeadSpec

LEMMA LeadsTyped == LeadSpec => []LeadTypeOK
<1>1. LeadShape => LeadTypeOK
  BY DEF LeadShape, LeadTypeOK, LeadRows, SourceRows
<1>. QED
  BY <1>1, LeadBegins, LeadStep, PTL DEF LeadSpec

-----------------------------------------------------------------------------
(* ResearchQueries: an answer cites what was stored before it was composed.   *)

QueryAnswers == [kind : {"synthesized", "source_list"}, citations : SUBSET CitedUrls, limited : BOOLEAN]
QueryRows == [status : {"pending", "completed", "failed", "skipped"}, by : Askers, domain : Domains,
              sources : SUBSET FoundUrls, answer : QueryAnswers \cup {NoAnswer}]
AskCalls == {NotAsking} \cup [pc : {"search", "compose", "complete", "error"}]
            \cup [pc : {"sources"}, found : SUBSET FoundUrls]
            \cup [pc : {"answer"}, answer : QueryAnswers]

\* An answer is backed by the row: as it was when it was composed, no source is old.
Backed(answer, row) ==
    /\ answer.citations \subseteq row.sources
    /\ answer.kind = "synthesized" => Validated(answer, row.sources, row.domain, FALSE)

QueryOK(row) ==
    /\ row.answer # NoAnswer => Backed(row.answer, row)
    /\ row.status = "completed" /\ row.by # "worker" /\ row.sources # {} => row.answer # NoAnswer

\* What a call that has not ended knows of its row: it alone writes it.
AskOK(call, row) ==
    /\ call.pc \in {"search", "sources"} => row.answer = NoAnswer /\ row.sources = {}
    /\ call.pc = "compose" => row.answer = NoAnswer
    /\ call.pc = "answer" => Backed(call.answer, row) /\ row.answer = NoAnswer
    /\ call.pc = "complete" => row.sources = {} \/ row.answer # NoAnswer
    /\ row.status = "pending" \/ row.by = "worker"

ResearchInv ==
    /\ queries \in [QueryIds -> QueryRows \cup {NoQuery}] /\ asking \in [QueryIds -> AskCalls]
    /\ \A q \in QueryIds :
         /\ queries[q] # NoQuery => QueryOK(queries[q])
         /\ asking[q] # NotAsking => queries[q] # NoQuery /\ AskOK(asking[q], queries[q])

LEMMA ResearchTyped ==
  /\ NoQuery \notin QueryRows /\ NoAnswer \notin QueryAnswers /\ NotAsking \in AskCalls
  /\ \A call \in AskCalls : call.pc = "none" <=> call = NotAsking
  /\ \A call \in AskCalls :
       /\ call.pc = "sources" => call.found \in SUBSET FoundUrls
       /\ call.pc = "answer" => call.answer \in QueryAnswers
<1>1. NoQuery \notin QueryRows
  <2>. SUFFICES ASSUME NoQuery \in QueryRows PROVE FALSE
    OBVIOUS
  <2>1. NoQuery.status \in {"pending", "completed", "failed", "skipped"} /\ NoQuery.status = "none"
    BY DEF QueryRows, NoQuery
  <2>. QED
    BY <2>1
<1>2. NoAnswer \notin QueryAnswers
  <2>. SUFFICES ASSUME NoAnswer \in QueryAnswers PROVE FALSE
    OBVIOUS
  <2>1. NoAnswer.kind \in {"synthesized", "source_list"} /\ NoAnswer.kind = "none"
    BY DEF QueryAnswers, NoAnswer
  <2>. QED
    BY <2>1
<1>. QED
  BY <1>1, <1>2 DEF AskCalls, NotAsking

LEMMA ListTyped == \A found \in SUBSET FoundUrls : sourceListOnlyAnswer(found) \in QueryAnswers
  BY DEF sourceListOnlyAnswer, QueryAnswers, CitedUrls

LEMMA ResearchStep == ResearchInv /\ [ResearchNext]_researchVars => ResearchInv'
<1>. SUFFICES ASSUME ResearchInv, [ResearchNext]_researchVars PROVE ResearchInv'
  OBVIOUS
<1>0. /\ queries \in [QueryIds -> QueryRows \cup {NoQuery}] /\ asking \in [QueryIds -> AskCalls]
      /\ \A q \in QueryIds : queries[q] # NoQuery => QueryOK(queries[q])
      /\ \A q \in QueryIds : asking[q] # NotAsking =>
           queries[q] # NoQuery /\ AskOK(asking[q], queries[q])
  BY DEF ResearchInv
\* A step of one call on its row.
<1>a. ASSUME NEW q \in QueryIds, NEW row \in QueryRows \cup {NoQuery}, NEW call \in AskCalls,
             queries' = [queries EXCEPT ![q] = row], asking' = [asking EXCEPT ![q] = call],
             row # NoQuery => QueryOK(row),
             call # NotAsking => row # NoQuery /\ AskOK(call, row)
      PROVE  ResearchInv'
  <2>1. queries' \in [QueryIds -> QueryRows \cup {NoQuery}] /\ asking' \in [QueryIds -> AskCalls]
    BY <1>0, <1>a
  <2>2. ASSUME NEW r \in QueryIds
        PROVE  /\ queries'[r] # NoQuery => QueryOK(queries'[r])
               /\ asking'[r] # NotAsking => queries'[r] # NoQuery /\ AskOK(asking'[r], queries'[r])
    <3>1. CASE r = q
      BY <1>0, <1>a, <3>1
    <3>2. CASE r # q
      BY <1>0, <1>a, <3>2
    <3>. QED
      BY <3>1, <3>2
  <2>3. \A x : QueryOK(x) => QueryOK(x)'
    BY DEF QueryOK, Backed, Validated, NoAnswer
  <2>4. \A x, y : AskOK(x, y) => AskOK(x, y)'
    BY DEF AskOK, Backed, Validated, NoAnswer
  <2>. QED
    BY <2>1, <2>2, <2>3, <2>4 DEF ResearchInv
<1>1. ASSUME NEW q \in QueryIds, NEW by \in {"brain", "route"}, NEW domain \in Domains,
             StartQuery(q, by, domain)
      PROVE  ResearchInv'
  <2>. DEFINE row == NewRow(by, domain, "pending")
              call == [pc |-> "search"]
  <2>1. row \in QueryRows /\ call \in AskCalls /\ QueryOK(row) /\ AskOK(call, row)
    BY DEF NewRow, QueryRows, Askers, AskCalls, QueryOK, AskOK
  <2>2. queries' = [queries EXCEPT ![q] = row] /\ asking' = [asking EXCEPT ![q] = call]
    BY <1>1 DEF StartQuery, AskGoes
  <2>. HIDE DEF row, call
  <2>. QED
    BY <1>a, <2>1, <2>2, ResearchTyped
<1>2. ASSUME NEW q \in QueryIds, NEW domain \in Domains, NEW found \in SUBSET FoundUrls,
             StartWorkerQuery(q, domain, found)
      PROVE  ResearchInv'
  <2>. DEFINE row == NewRow("worker", domain, "completed")
              call == IF found = {} THEN NotAsking ELSE [pc |-> "sources", found |-> found]
  <2>1. row \in QueryRows /\ call \in AskCalls /\ QueryOK(row) /\ (call # NotAsking => AskOK(call, row))
    BY ResearchTyped DEF NewRow, QueryRows, Askers, AskCalls, QueryOK, AskOK
  <2>2. queries' = [queries EXCEPT ![q] = row] /\ asking' = [asking EXCEPT ![q] = call]
    BY <1>2 DEF StartWorkerQuery, AskGoes
  <2>. HIDE DEF row, call
  <2>. QED
    BY <1>a, <2>1, <2>2, ResearchTyped
\* The call goes on, and its row stays.
<1>b. ASSUME NEW q \in QueryIds, NEW call \in AskCalls, AskGoes(q, call), UNCHANGED queries,
             call # NotAsking => queries[q] # NoQuery /\ AskOK(call, queries[q])
      PROVE  ResearchInv'
  <2>1. queries' = [queries EXCEPT ![q] = queries[q]]
    BY <1>0, <1>b
  <2>. QED
    BY <1>0, <1>a, <1>b, <2>1 DEF AskGoes
<1>3. ASSUME NEW q \in QueryIds, NEW found \in SUBSET FoundUrls, SearchAnswers(q, found)
      PROVE  ResearchInv'
  <2>. DEFINE call == IF found # {} THEN [pc |-> "sources", found |-> found]
                      ELSE [pc |-> IF queries[q].by = "route" THEN "complete" ELSE "error"]
  <2>1. asking[q].pc = "search" /\ AskGoes(q, call) /\ UNCHANGED queries
    BY <1>3 DEF SearchAnswers, AskAt
  <2>2. asking[q] # NotAsking /\ queries[q] # NoQuery /\ AskOK(asking[q], queries[q])
    BY <1>0, <2>1 DEF NotAsking
  <2>3. call \in AskCalls /\ AskOK(call, queries[q])
    BY <2>1, <2>2 DEF AskCalls, AskOK
  <2>. HIDE DEF call
  <2>. QED
    BY <1>b, <2>1, <2>2, <2>3
<1>4. ASSUME NEW q \in QueryIds, InsertSources(q)
      PROVE  ResearchInv'
  <2>. SUFFICES ASSUME NEW CONSTANT old, old = queries[q],
                       NEW CONSTANT found, found = asking[q].found,
                       NEW CONSTANT row, row = [old EXCEPT !.sources = found],
                       NEW CONSTANT call,
                       call = IF old.by = "worker" THEN [pc |-> "answer", answer |-> sourceListOnlyAnswer(found)]
                              ELSE [pc |-> "compose"]
                PROVE  ResearchInv'
    OBVIOUS
  <2>1. /\ asking[q].pc = "sources" /\ queries' = [queries EXCEPT ![q] = row]
        /\ asking' = [asking EXCEPT ![q] = call]
    BY <1>4 DEF InsertSources, AskAt, AskGoes
  <2>2. asking[q] # NotAsking /\ old # NoQuery /\ AskOK(asking[q], old) /\ old \in QueryRows
    BY <1>0, <2>1 DEF NotAsking
  <2>3. found \in SUBSET FoundUrls
    BY <1>0, <2>1, ResearchTyped
  <2>4. /\ row \in QueryRows /\ row.sources = found /\ row.answer = NoAnswer /\ row.by = old.by
        /\ row.status = old.status
    BY <2>1, <2>2, <2>3 DEF QueryRows, AskOK
  <2>5. call \in AskCalls
    BY <2>3, ListTyped DEF AskCalls
  <2>6. row.status = "pending" \/ row.by = "worker"
    BY <2>2, <2>4 DEF AskOK
  <2>7. QueryOK(row)
    BY <2>4, <2>6 DEF QueryOK
  <2>8. AskOK(call, row)
    BY <2>4, <2>6 DEF AskOK, Backed, sourceListOnlyAnswer
  <2>9. row # NoQuery
    BY <2>4, ResearchTyped
  <2>. QED
    BY <1>a, <2>1, <2>4, <2>5, <2>7, <2>8, <2>9
<1>5. ASSUME NEW q \in QueryIds, NEW cited \in SUBSET CitedUrls, NEW limited \in BOOLEAN,
             ComposeAnswer(q, cited, limited)
      PROVE  ResearchInv'
  <2>. SUFFICES ASSUME NEW CONSTANT row, row = queries[q],
                       NEW CONSTANT said, said = [kind |-> "synthesized", citations |-> cited, limited |-> limited],
                       NEW CONSTANT answer, answer = Composed(said, row.sources, row.domain)
                PROVE  ResearchInv'
    BY DEF Composed
  <2>1. /\ asking[q].pc = "compose" /\ AskGoes(q, [pc |-> "answer", answer |-> answer])
        /\ UNCHANGED queries
    BY <1>5 DEF ComposeAnswer, AskAt
  <2>2. asking[q] # NotAsking /\ row # NoQuery /\ AskOK(asking[q], row) /\ row \in QueryRows
    BY <1>0, <2>1 DEF NotAsking
  <2>3. row.sources \in SUBSET FoundUrls
    BY <2>2 DEF QueryRows
  <2>4. CASE Validated(said, row.sources, row.domain, FALSE)
    <3>1. answer = said
      BY <2>4 DEF Composed
    <3>2. said \in QueryAnswers
      BY DEF QueryAnswers
    <3>3. Backed(said, row)
      BY <2>4 DEF Backed, Validated
    <3>4. [pc |-> "answer", answer |-> said] \in AskCalls
      BY <3>2 DEF AskCalls
    <3>5. AskOK([pc |-> "answer", answer |-> said], row)
      BY <2>1, <2>2, <3>3 DEF AskOK
    <3>. QED
      BY <1>b, <2>1, <2>2, <3>1, <3>4, <3>5
  <2>5. CASE ~Validated(said, row.sources, row.domain, FALSE)
    <3>1. answer = sourceListOnlyAnswer(row.sources)
      BY <2>5 DEF Composed
    <3>2. answer \in QueryAnswers
      BY <2>3, <3>1, ListTyped
    <3>3. answer.citations = row.sources /\ answer.kind = "source_list"
      BY <3>1 DEF sourceListOnlyAnswer
    <3>6. Backed(answer, row)
      BY <3>3 DEF Backed
    <3>4. [pc |-> "answer", answer |-> answer] \in AskCalls
      BY <3>2 DEF AskCalls
    <3>5. AskOK([pc |-> "answer", answer |-> answer], row)
      BY <2>1, <2>2, <3>6 DEF AskOK
    <3>. QED
      BY <1>b, <2>1, <2>2, <3>4, <3>5
  <2>. QED
    BY <2>4, <2>5
<1>6. ASSUME NEW q \in QueryIds, InsertAnswer(q)
      PROVE  ResearchInv'
  <2>. SUFFICES ASSUME NEW CONSTANT old, old = queries[q],
                       NEW CONSTANT answer, answer = asking[q].answer,
                       NEW CONSTANT row, row = [old EXCEPT !.answer = answer],
                       NEW CONSTANT call,
                       call = IF old.by = "worker" THEN NotAsking ELSE [pc |-> "complete"]
                PROVE  ResearchInv'
    OBVIOUS
  <2>1. /\ asking[q].pc = "answer" /\ queries' = [queries EXCEPT ![q] = row]
        /\ asking' = [asking EXCEPT ![q] = call]
    BY <1>6 DEF InsertAnswer, AskAt, AskGoes
  <2>2. asking[q] # NotAsking /\ old # NoQuery /\ AskOK(asking[q], old) /\ old \in QueryRows
    BY <1>0, <2>1 DEF NotAsking
  <2>3. answer \in QueryAnswers /\ answer # NoAnswer
    BY <1>0, <2>1, ResearchTyped
  <2>4. /\ row \in QueryRows /\ row.sources = old.sources /\ row.answer = answer /\ row.by = old.by
        /\ row.status = old.status /\ row.domain = old.domain
    BY <2>2, <2>3 DEF QueryRows
  <2>5. Backed(answer, old)
    BY <2>1, <2>2 DEF AskOK
  <2>6. QueryOK(row)
    BY <2>3, <2>4, <2>5 DEF QueryOK, Backed
  <2>7. row.status = "pending" \/ row.by = "worker"
    BY <2>2, <2>4 DEF AskOK
  <2>8. call \in AskCalls /\ AskOK(call, row)
    BY <2>3, <2>4, <2>7, ResearchTyped DEF AskOK, AskCalls, NotAsking
  <2>9. row # NoQuery
    BY <2>4, ResearchTyped
  <2>. QED
    BY <1>a, <2>1, <2>4, <2>6, <2>8, <2>9
<1>7. ASSUME NEW q \in QueryIds, CompleteQuery(q) \/ MarkQueryFailed(q)
      PROVE  ResearchInv'
  <2>1. PICK status \in {"completed", "failed", "skipped"} :
          /\ queries' = [queries EXCEPT ![q].status = status]
          /\ asking' = [asking EXCEPT ![q] = NotAsking]
          /\ status = "completed" <=> asking[q].pc = "complete"
          /\ asking[q].pc \in {"complete", "error"}
    BY <1>7 DEF CompleteQuery, MarkQueryFailed, AskAt, AskGoes
  <2>. SUFFICES ASSUME NEW CONSTANT old, old = queries[q],
                       NEW CONSTANT row, row = [old EXCEPT !.status = status]
                PROVE  ResearchInv'
    OBVIOUS
  <2>2. asking[q] # NotAsking /\ old # NoQuery /\ AskOK(asking[q], old) /\ old \in QueryRows /\ QueryOK(old)
    BY <1>0, <2>1 DEF NotAsking
  <2>3. /\ row \in QueryRows /\ row.sources = old.sources /\ row.answer = old.answer /\ row.by = old.by
        /\ row.status = status /\ row.domain = old.domain
    BY <2>2 DEF QueryRows
  <2>4. status = "completed" => row.sources = {} \/ row.answer # NoAnswer
    BY <2>1, <2>2, <2>3 DEF AskOK
  <2>5. QueryOK(row)
    BY <2>2, <2>3, <2>4 DEF QueryOK, Backed
  <2>6. queries' = [queries EXCEPT ![q] = row]
    BY <2>1
  <2>. QED
    BY <1>a, <2>1, <2>3, <2>5, <2>6, ResearchTyped
<1>8. ASSUME NEW q \in QueryIds, QueryFails(q) \/ ProcessDies(q)
      PROVE  ResearchInv'
  <2>1. PICK call \in {NotAsking, [pc |-> "error"]} :
          AskGoes(q, call) /\ UNCHANGED queries /\ asking[q].pc # "none"
    BY <1>8 DEF QueryFails, ProcessDies, AskAt
  <2>2. asking[q] # NotAsking /\ queries[q] # NoQuery /\ AskOK(asking[q], queries[q])
    BY <1>0, <2>1 DEF NotAsking
  <2>3. call \in AskCalls /\ AskOK(call, queries[q])
    BY <2>2 DEF AskCalls, AskOK, NotAsking
  <2>. QED
    BY <1>b, <2>1, <2>2, <2>3
<1>9. CASE (\E q \in QueryIds : SourcesAge(q)) \/ UNCHANGED researchVars
  <2>1. UNCHANGED <<queries, asking>>
    BY <1>9 DEF SourcesAge, researchVars
  <2>. QED
    BY <1>0, <2>1 DEF ResearchInv, QueryOK, AskOK, Backed, Validated
<1>. QED
  BY <1>1, <1>2, <1>3, <1>4, <1>5, <1>6, <1>7, <1>8, <1>9 DEF ResearchNext

LEMMA ResearchBegins == ResearchInit => ResearchInv
BY ResearchTyped DEF ResearchInit, ResearchInv

LEMMA ResearchCorrect == ResearchInit /\ [][ResearchNext]_researchVars => []AnswersAreSourceBacked
<1>1. ResearchInv => AnswersAreSourceBacked
  <2>. SUFFICES ASSUME ResearchInv, NEW q \in QueryIds, queries[q] # NoQuery,
                       NEW CONSTANT row, row = queries[q]
                PROVE  /\ row.answer # NoAnswer => row.answer.citations \subseteq row.sources
                       /\ row.answer.kind = "synthesized" => q \in aged \/ ReportPackBuilt(q)
                       /\ row.status = "completed" /\ row.by # "worker" /\ row.sources # {} => row.answer # NoAnswer
    BY DEF AnswersAreSourceBacked
  <2>1. QueryOK(row)
    BY DEF ResearchInv
  <2>2. ASSUME row.answer.kind = "synthesized", q \notin aged PROVE ReportPackBuilt(q)
    <3>1. row.answer # NoAnswer
      BY <2>2 DEF NoAnswer
    <3>2. Validated(row.answer, row.sources, row.domain, FALSE)
      BY <2>1, <2>2, <3>1 DEF QueryOK, Backed
    <3>3. Validated(row.answer, row.sources, row.domain, q \in aged)
      BY <2>2, <3>2 DEF Validated
    <3>. QED
      BY <3>3 DEF ReportPackBuilt
  <2>. QED
    BY <2>1, <2>2 DEF QueryOK, Backed
<1>. QED
  BY <1>1, ResearchBegins, ResearchStep, PTL

\* Only a query there is ages.
LEMMA QueriesTyped == ResearchInit /\ [][ResearchNext]_researchVars => []ResearchTypeOK
<1>1. ResearchInit => aged \subseteq QueryIds
  BY DEF ResearchInit
<1>2. aged \subseteq QueryIds /\ [ResearchNext]_researchVars => (aged \subseteq QueryIds)'
  BY DEF ResearchNext, researchVars, StartQuery, StartWorkerQuery, SearchAnswers, InsertSources,
         ComposeAnswer, InsertAnswer, CompleteQuery, QueryFails, MarkQueryFailed, ProcessDies, SourcesAge
<1>3. ResearchInv /\ aged \subseteq QueryIds => ResearchTypeOK
  <2>. SUFFICES ASSUME ResearchInv, aged \subseteq QueryIds PROVE ResearchTypeOK
    OBVIOUS
  <2>1. \A row \in QueryRows :
          /\ row.status \in {"pending", "completed", "failed", "skipped"} /\ row.sources \subseteq FoundUrls
          /\ row.domain \in Domains /\ row.by \in Askers
          /\ row.answer.kind \in {"none", "synthesized", "source_list"}
    BY DEF QueryRows, QueryAnswers, NoAnswer
  <2>2. \A call \in AskCalls : call.pc \in
          {"none", "search", "sources", "compose", "answer", "complete", "error"}
    BY DEF AskCalls, NotAsking
  <2>. QED
    BY <2>1, <2>2 DEF ResearchInv, ResearchTypeOK
<1>. QED
  BY <1>1, <1>2, <1>3, ResearchBegins, ResearchStep, PTL

-----------------------------------------------------------------------------
(* OutreachDrafts: what is recorded of a draft is of its text, and its proposals  *)
(* are its own.                                                              *)

OutreachRows == [sources : SUBSET Sources, text : DraftTexts,
                 status : {"draft", "proposed", "approved", "rejected"}, proposal : Nat]
OutreachDecisions == {"none", "approved", "rejected"}
OutreachEvents == [draft : Nat, type : {"outbound_compliance_check", "draft_quality_review"},
                   ok : BOOLEAN]
OutreachCallTypes == {NoDraftCall}
    \cup [pc : {"sources"}, todo : SUBSET Investors]
    \cup [pc : {"insert"}, todo : SUBSET Investors, sources : SUBSET Sources]
    \cup [pc : {"check"}, todo : SUBSET Investors, draft : Nat]
    \cup [pc : {"review"}, draft : Nat, passed : BOOLEAN]
    \cup [pc : {"link"}, draft : Nat, proposal : Nat]

OutreachShape ==
    /\ sourceOf \in [Sources -> Investors \cup {"none"}]
    /\ outreachDrafts \in Seq(OutreachRows) /\ draftProposals \in Seq(Nat)
    /\ draftDecisions \in Seq(OutreachDecisions) /\ Len(draftDecisions) = Len(outreachDrafts)
    /\ complianceEvents \in SUBSET OutreachEvents
    /\ draftCalls \in [OutreachCalls -> OutreachCallTypes]

\* Sources once stored stay stored: a merge only moves them.
SourcesStored(found) == found # {} /\ \A s \in found : sourceOf[s] # "none"

ProposalOf(p, d) == p \in DOMAIN draftProposals /\ draftProposals[p] = d

EventTrue(e) ==
    /\ e.draft \in DOMAIN outreachDrafts
    /\ e.type = "draft_quality_review" => (e.ok <=> Draft(e.draft).text = "clean")
    /\ e.type = "outbound_compliance_check" => (e.ok <=> Compliant(Draft(e.draft).text))

Checked(d) == \E e \in complianceEvents : e.draft = d /\ e.type = "outbound_compliance_check"

DraftRowOK(d) ==
    /\ SourcesStored(Draft(d).sources)
    /\ Draft(d).proposal = 0 \/ ProposalOf(Draft(d).proposal, d)
    /\ IF draftDecisions[d] = "none" THEN NeedsReview(d) ELSE Draft(d).status = draftDecisions[d]

DraftChecked(d) ==
    \/ Checked(d) \/ <<"draft", d>> \in draftCut
    \/ \E c \in OutreachCalls : DraftAt(c, "check") /\ draftCalls[c].draft = d

ProposalLinked(p) ==
    /\ draftProposals[p] \in DOMAIN outreachDrafts
    /\ \/ Draft(draftProposals[p]).proposal # 0 \/ <<"proposal", p>> \in draftCut
       \/ \E c \in OutreachCalls : DraftAt(c, "link") /\ draftCalls[c].proposal = p

OutreachCallOK(call) ==
    /\ call.pc = "insert" => SourcesStored(call.sources)
    /\ call.pc \in {"check", "review", "link"} => call.draft \in DOMAIN outreachDrafts
    /\ call.pc = "review" => (call.passed <=> Draft(call.draft).text = "clean")
    /\ call.pc = "link" => ProposalOf(call.proposal, call.draft)

OutreachInv ==
    /\ \A e \in complianceEvents : EventTrue(e)
    /\ \A d \in DOMAIN outreachDrafts : DraftRowOK(d) /\ DraftChecked(d)
    /\ \A p \in DOMAIN draftProposals : ProposalLinked(p)
    /\ \A c \in OutreachCalls : OutreachCallOK(draftCalls[c])

OutreachGrows ==
    /\ \A s \in Sources : sourceOf[s] # "none" => sourceOf'[s] # "none"
    /\ \A d \in DOMAIN outreachDrafts :
         /\ d \in DOMAIN outreachDrafts'
         /\ outreachDrafts'[d].text = outreachDrafts[d].text
         /\ outreachDrafts'[d].sources = outreachDrafts[d].sources
         /\ outreachDrafts[d].proposal # 0 => outreachDrafts'[d].proposal # 0
    /\ \A p \in DOMAIN draftProposals :
         p \in DOMAIN draftProposals' /\ draftProposals'[p] = draftProposals[p]
    /\ complianceEvents \subseteq complianceEvents' /\ draftCut \subseteq draftCut'

LEMMA OutreachTyped ==
  /\ NoDraftCall \in OutreachCallTypes /\ NoDraftCall.pc = "none"
  /\ \A call \in OutreachCallTypes :
       /\ call.pc = "none" <=> call = NoDraftCall
       /\ call.pc \in {"sources", "insert", "check"} => call.todo \in SUBSET Investors
       /\ call.pc = "insert" => call.sources \in SUBSET Sources
       /\ call.pc \in {"check", "review", "link"} => call.draft \in Nat
       /\ call.pc = "review" => call.passed \in BOOLEAN
       /\ call.pc = "link" => call.proposal \in Nat
BY DEF OutreachCallTypes, NoDraftCall

LEMMA OutreachCallStays ==
  ASSUME OutreachGrows, NEW call \in OutreachCallTypes, OutreachCallOK(call)
  PROVE  OutreachCallOK(call)'
<1>1. call.pc = "insert" => SourcesStored(call.sources)'
  BY OutreachTyped DEF OutreachGrows, OutreachCallOK, SourcesStored
<1>2. call.pc \in {"check", "review", "link"} => call.draft \in DOMAIN outreachDrafts'
  BY DEF OutreachGrows, OutreachCallOK
<1>3. call.pc = "review" => (call.passed <=> outreachDrafts'[call.draft].text = "clean")
  BY DEF OutreachGrows, OutreachCallOK, Draft
<1>4. call.pc = "link" => ProposalOf(call.proposal, call.draft)'
  BY DEF OutreachGrows, OutreachCallOK, ProposalOf
<1>. QED
  BY <1>1, <1>2, <1>3, <1>4 DEF OutreachCallOK, Draft

\* Where a call was that does not go on: its event, or its link, was written or cut.
CallLeft(c) ==
    LET call == draftCalls[c] IN
    /\ call.pc = "check" =>
         \/ <<"draft", call.draft>> \in draftCut'
         \/ \E e \in complianceEvents' : e.draft = call.draft /\ e.type = "outbound_compliance_check"
    /\ call.pc = "link" =>
         <<"proposal", call.proposal>> \in draftCut' \/ outreachDrafts'[call.draft].proposal # 0

LEMMA OutreachStep == OutreachShape /\ OutreachInv /\ [OutreachNext]_outreachVars => OutreachShape' /\ OutreachInv'
<1>. SUFFICES ASSUME OutreachShape, OutreachInv, [OutreachNext]_outreachVars
              PROVE  OutreachShape' /\ OutreachInv'
  OBVIOUS
<1>0. /\ sourceOf \in [Sources -> Investors \cup {"none"}]
      /\ outreachDrafts \in Seq(OutreachRows) /\ draftProposals \in Seq(Nat)
      /\ draftDecisions \in Seq(OutreachDecisions) /\ Len(draftDecisions) = Len(outreachDrafts)
      /\ complianceEvents \in SUBSET OutreachEvents
      /\ draftCalls \in [OutreachCalls -> OutreachCallTypes]
      /\ \A e \in complianceEvents : EventTrue(e)
      /\ \A d \in DOMAIN outreachDrafts : DraftRowOK(d) /\ DraftChecked(d)
      /\ \A p \in DOMAIN draftProposals : ProposalLinked(p)
      /\ \A c \in OutreachCalls : OutreachCallOK(draftCalls[c])
  BY DEF OutreachShape, OutreachInv
<1>d. /\ DOMAIN outreachDrafts = 1..Len(outreachDrafts) /\ Len(outreachDrafts) \in Nat
      /\ DOMAIN draftProposals = 1..Len(draftProposals) /\ Len(draftProposals) \in Nat
      /\ DOMAIN draftDecisions = 1..Len(outreachDrafts)
  BY <1>0, LenProperties
<1>r. /\ \A d \in DOMAIN outreachDrafts : outreachDrafts[d] \in OutreachRows /\ draftDecisions[d] \in OutreachDecisions
      /\ \A p \in DOMAIN draftProposals : draftProposals[p] \in Nat
  BY <1>0, <1>d, ElementOfSeq
\* What is new is right, and nothing that was is undone.
<1>a. ASSUME OutreachShape', OutreachGrows,
             \A e \in complianceEvents' : e \in complianceEvents \/ EventTrue(e)',
             \A d \in DOMAIN outreachDrafts' :
               \/ /\ d \in DOMAIN outreachDrafts
                  /\ outreachDrafts'[d] = outreachDrafts[d] /\ draftDecisions'[d] = draftDecisions[d]
               \/ DraftRowOK(d)',
             \A d \in DOMAIN outreachDrafts' : d \in DOMAIN outreachDrafts \/ DraftChecked(d)',
             \A p \in DOMAIN draftProposals' : p \in DOMAIN draftProposals \/ ProposalLinked(p)',
             \A c \in OutreachCalls : \/ draftCalls'[c] = draftCalls[c]
                                      \/ OutreachCallOK(draftCalls[c])' /\ CallLeft(c)
      PROVE  OutreachShape' /\ OutreachInv'
  <2>1. ASSUME NEW e \in complianceEvents' PROVE EventTrue(e)'
    <3>1. CASE e \in complianceEvents
      BY <1>0, <1>a, <3>1 DEF EventTrue, OutreachGrows, Draft
    <3>. QED
      BY <1>a, <3>1
  <2>2. ASSUME NEW d \in DOMAIN outreachDrafts' PROVE DraftRowOK(d)'
    <3>1. CASE /\ d \in DOMAIN outreachDrafts
               /\ outreachDrafts'[d] = outreachDrafts[d] /\ draftDecisions'[d] = draftDecisions[d]
      <4>0. DraftRowOK(d) /\ outreachDrafts[d] \in OutreachRows
        BY <1>0, <1>r, <3>1
      <4>1. SourcesStored(outreachDrafts[d].sources)
        BY <4>0 DEF DraftRowOK, Draft
      <4>2. outreachDrafts[d].sources \in SUBSET Sources
        BY <4>0 DEF OutreachRows
      <4>3. outreachDrafts[d].sources # {} /\ \A s \in outreachDrafts[d].sources : sourceOf'[s] # "none"
        BY <1>a, <4>1, <4>2 DEF SourcesStored, OutreachGrows
      <4>4. outreachDrafts[d].proposal = 0 \/ ProposalOf(outreachDrafts[d].proposal, d)
        BY <4>0 DEF DraftRowOK, Draft
      <4>5. Draft(d)'.proposal = 0 \/ ProposalOf(Draft(d).proposal, d)'
        BY <1>a, <3>1, <4>4 DEF ProposalOf, OutreachGrows, Draft
      <4>6. IF draftDecisions'[d] = "none" THEN NeedsReview(d)' ELSE Draft(d)'.status = draftDecisions'[d]
        BY <3>1, <4>0 DEF DraftRowOK, NeedsReview, Draft
      <4>7. SourcesStored(Draft(d).sources)'
        BY <3>1, <4>3 DEF SourcesStored, Draft
      <4>. QED
        BY <4>5, <4>6, <4>7 DEF DraftRowOK
    <3>. QED
      BY <1>a, <3>1
  <2>3. ASSUME NEW d \in DOMAIN outreachDrafts' PROVE DraftChecked(d)'
    <3>1. CASE d \in DOMAIN outreachDrafts
      <4>1. CASE Checked(d) \/ <<"draft", d>> \in draftCut
        BY <1>a, <4>1 DEF DraftChecked, Checked, OutreachGrows
      <4>2. CASE \E c \in OutreachCalls : DraftAt(c, "check") /\ draftCalls[c].draft = d
        <5>1. PICK c \in OutreachCalls : draftCalls[c].pc = "check" /\ draftCalls[c].draft = d
          BY <4>2 DEF DraftAt
        <5>2. CASE draftCalls'[c] = draftCalls[c]
          BY <5>1, <5>2 DEF DraftChecked, DraftAt
        <5>3. CASE CallLeft(c)
          BY <5>1, <5>3 DEF CallLeft, DraftChecked, Checked
        <5>. QED
          BY <1>a, <5>2, <5>3
      <4>. QED
        BY <1>0, <3>1, <4>1, <4>2 DEF DraftChecked
    <3>. QED
      BY <1>a, <3>1
  <2>4. ASSUME NEW p \in DOMAIN draftProposals' PROVE ProposalLinked(p)'
    <3>1. CASE p \in DOMAIN draftProposals
      <4>0. ProposalLinked(p) /\ draftProposals'[p] = draftProposals[p]
        BY <1>0, <1>a, <3>1 DEF OutreachGrows
      <4>. SUFFICES ASSUME NEW CONSTANT d, d = draftProposals[p], d = draftProposals'[p]
                    PROVE  ProposalLinked(p)'
        BY <4>0
      <4>1. d \in DOMAIN outreachDrafts /\ d \in DOMAIN outreachDrafts'
        BY <1>a, <4>0 DEF ProposalLinked, OutreachGrows
      <4>2. CASE Draft(d).proposal # 0 \/ <<"proposal", p>> \in draftCut
        BY <1>a, <4>1, <4>2 DEF ProposalLinked, OutreachGrows, Draft
      <4>3. CASE \E c \in OutreachCalls : DraftAt(c, "link") /\ draftCalls[c].proposal = p
        <5>1. PICK c \in OutreachCalls : draftCalls[c].pc = "link" /\ draftCalls[c].proposal = p
          BY <4>3 DEF DraftAt
        <5>2. CASE draftCalls'[c] = draftCalls[c]
          BY <4>1, <5>1, <5>2 DEF ProposalLinked, DraftAt
        <5>3. CASE CallLeft(c)
          <6>1. draftCalls[c].draft = d
            BY <1>0, <5>1 DEF OutreachCallOK, ProposalOf
          <6>. QED
            BY <4>1, <5>1, <5>3, <6>1 DEF CallLeft, ProposalLinked, Draft
        <5>. QED
          BY <1>a, <5>2, <5>3
      <4>. QED
        BY <4>0, <4>2, <4>3 DEF ProposalLinked
    <3>. QED
      BY <1>a, <3>1
  <2>5. ASSUME NEW c \in OutreachCalls PROVE OutreachCallOK(draftCalls[c])'
    <3>1. CASE draftCalls'[c] = draftCalls[c]
      <4>. SUFFICES ASSUME NEW CONSTANT call, call = draftCalls[c], call = draftCalls'[c]
                    PROVE  OutreachCallOK(call)'
        BY <3>1 DEF OutreachCallOK
      <4>. QED
        BY <1>0, <1>a, OutreachCallStays
    <3>. QED
      BY <1>a, <3>1
  <2>. QED
    BY <1>a, <2>1, <2>2, <2>3, <2>4, <2>5 DEF OutreachInv
\* Only a call goes on, from a step that owes nothing.
<1>b. ASSUME NEW c \in OutreachCalls, NEW call \in OutreachCallTypes, draftCalls' = [draftCalls EXCEPT ![c] = call],
             UNCHANGED <<sourceOf, outreachDrafts, draftProposals, draftDecisions>>,
             complianceEvents' \in SUBSET OutreachEvents, complianceEvents \subseteq complianceEvents',
             draftCut \subseteq draftCut', OutreachCallOK(call), CallLeft(c),
             \A e \in complianceEvents' : e \in complianceEvents \/ EventTrue(e)
      PROVE  OutreachShape' /\ OutreachInv'
  <2>1. OutreachShape'
    BY <1>0, <1>b DEF OutreachShape
  <2>2. OutreachGrows
    BY <1>b DEF OutreachGrows
  <2>3. OutreachCallOK(call)'
    BY <1>b, <2>2, OutreachCallStays
  <2>4. \A d \in OutreachCalls : draftCalls'[d] = IF d = c THEN call ELSE draftCalls[d]
    BY <1>0, <1>b
  <2>5. ASSUME NEW d \in OutreachCalls
        PROVE  draftCalls'[d] = draftCalls[d] \/ (OutreachCallOK(draftCalls[d])' /\ CallLeft(d))
    <3>1. CASE d = c
      <4>1. draftCalls'[d] = call
        BY <2>4, <3>1
      <4>. QED
        BY <1>b, <2>3, <3>1, <4>1 DEF OutreachCallOK
    <3>. QED
      BY <2>4, <3>1
  <2>6. \A e \in complianceEvents' : e \in complianceEvents \/ EventTrue(e)'
    BY <1>b DEF EventTrue, Draft
  <2>. QED
    BY <1>a, <1>b, <2>1, <2>2, <2>5, <2>6
<1>n. NoDraftCall \in OutreachCallTypes /\ OutreachCallOK(NoDraftCall)
  BY OutreachTyped DEF OutreachCallOK
<1>t. ASSUME NEW c \in OutreachCalls, NEW todo \in SUBSET Investors, NextInvestor(c, todo)
      PROVE  \E call \in OutreachCallTypes : OutreachCallOK(call) /\ draftCalls' = [draftCalls EXCEPT ![c] = call]
  <2>1. CASE todo = {}
    BY <1>n, <1>t, <2>1 DEF NextInvestor, DraftDone, DraftSet
  <2>2. CASE todo # {}
    <3>1. [pc |-> "sources", todo |-> todo] \in OutreachCallTypes
      BY DEF OutreachCallTypes
    <3>2. OutreachCallOK([pc |-> "sources", todo |-> todo])
      BY DEF OutreachCallOK
    <3>3. draftCalls' = [draftCalls EXCEPT ![c] = [pc |-> "sources", todo |-> todo]]
      BY <1>t, <2>2 DEF NextInvestor, DraftSet
    <3>. QED
      BY <3>1, <3>2, <3>3
  <2>. QED
    BY <2>1, <2>2
<1>1. ASSUME NEW c \in OutreachCalls, NEW todo \in SUBSET Investors, StartDrafts(c, todo)
      PROVE  OutreachShape' /\ OutreachInv'
  <2>1. draftCalls[c].pc = "none" /\ UNCHANGED <<sourceOf, outreachDrafts, draftProposals, draftDecisions, complianceEvents, draftCut>>
    BY <1>1, OutreachTyped DEF StartDrafts, DraftStart, draftTables
  <2>2. NextInvestor(c, todo)
    BY <1>1 DEF StartDrafts, DraftStart, NextInvestor
  <2>3. PICK call \in OutreachCallTypes : OutreachCallOK(call) /\ draftCalls' = [draftCalls EXCEPT ![c] = call]
    BY <1>t, <2>2
  <2>4. CallLeft(c)
    BY <2>1 DEF CallLeft
  <2>. QED
    BY <1>0, <1>b, <2>1, <2>3, <2>4
<1>2. ASSUME NEW c \in OutreachCalls, ReadSources(c)
      PROVE  OutreachShape' /\ OutreachInv'
  <2>1. draftCalls[c].pc = "sources" /\ UNCHANGED <<sourceOf, outreachDrafts, draftProposals, draftDecisions, complianceEvents, draftCut>>
    BY <1>2 DEF ReadSources, DraftAt, draftTables
  <2>2. PICK i \in draftCalls[c].todo :
          IF SourcesFound(i) = {} THEN NextInvestor(c, draftCalls[c].todo \ {i})
          ELSE DraftSet(c, [pc |-> "insert", todo |-> draftCalls[c].todo \ {i}, sources |-> SourcesFound(i)])
    BY <1>2 DEF ReadSources
  <2>3. draftCalls[c].todo \ {i} \in SUBSET Investors /\ i \in Investors
    BY <1>0, <2>1, OutreachTyped
  <2>4. \E call \in OutreachCallTypes : OutreachCallOK(call) /\ draftCalls' = [draftCalls EXCEPT ![c] = call]
    <3>1. CASE SourcesFound(i) = {}
      BY <1>t, <2>2, <2>3, <3>1
    <3>2. CASE SourcesFound(i) # {}
      <4>. SUFFICES ASSUME NEW CONSTANT todo, todo = draftCalls[c].todo \ {i},
                           NEW CONSTANT found, found = SourcesFound(i),
                           NEW CONSTANT call, call = [pc |-> "insert", todo |-> todo, sources |-> found]
                    PROVE  OutreachCallOK(call) /\ call \in OutreachCallTypes
                           /\ draftCalls' = [draftCalls EXCEPT ![c] = call]
        OBVIOUS
      <4>1. SourcesStored(found) /\ found \in SUBSET Sources
        BY <2>3, <3>2, DraftAssumption DEF SourcesStored, SourcesFound
      <4>2. call \in OutreachCallTypes
        BY <2>3, <4>1 DEF OutreachCallTypes
      <4>3. OutreachCallOK(call)
        BY <4>1 DEF OutreachCallOK
      <4>. QED
        BY <2>2, <3>2, <4>2, <4>3 DEF DraftSet
    <3>. QED
      BY <3>1, <3>2
  <2>5. PICK call \in OutreachCallTypes : OutreachCallOK(call) /\ draftCalls' = [draftCalls EXCEPT ![c] = call]
    BY <2>4
  <2>6. CallLeft(c)
    BY <2>1 DEF CallLeft
  <2>. QED
    BY <1>0, <1>b, <2>1, <2>5, <2>6
<1>3. ASSUME NEW c \in OutreachCalls, NEW text \in DraftTexts, InsertDraft(c, text)
      PROVE  OutreachShape' /\ OutreachInv'
  <2>. SUFFICES ASSUME NEW CONSTANT old, old = draftCalls[c], NEW CONSTANT found, found = old.sources,
                       NEW CONSTANT status, status = IF Compliant(text) THEN "proposed" ELSE "draft",
                       NEW CONSTANT row,
                       row = [sources |-> found, text |-> text, status |-> status, proposal |-> 0],
                       NEW CONSTANT n, n = Len(outreachDrafts) + 1,
                       NEW CONSTANT call, call = [pc |-> "check", todo |-> old.todo, draft |-> n]
                PROVE  OutreachShape' /\ OutreachInv'
    BY DEF Compliant
  <2>1. /\ old.pc = "insert" /\ outreachDrafts' = Append(outreachDrafts, row)
        /\ draftCalls' = [draftCalls EXCEPT ![c] = call] /\ draftDecisions' = Append(draftDecisions, "none")
        /\ UNCHANGED <<sourceOf, draftProposals, complianceEvents, draftCut>>
    BY <1>3 DEF InsertDraft, DraftAt, DraftSet
  <2>2. /\ old \in OutreachCallTypes /\ SourcesStored(found) /\ found \in SUBSET Sources
        /\ old.todo \in SUBSET Investors
    BY <1>0, <2>1, OutreachTyped DEF OutreachCallOK
  <2>3. /\ row \in OutreachRows /\ row.sources = found /\ row.proposal = 0 /\ row.text = text
        /\ row.status = status
    BY <2>2 DEF OutreachRows
  <2>4. n \in Nat /\ call \in OutreachCallTypes /\ call.pc = "check" /\ call.draft = n
    BY <1>d, <2>2 DEF OutreachCallTypes
  <2>5. /\ outreachDrafts' \in Seq(OutreachRows) /\ Len(outreachDrafts') = n
        /\ DOMAIN outreachDrafts' = 1..n
        /\ \A d \in DOMAIN outreachDrafts : outreachDrafts'[d] = outreachDrafts[d]
        /\ outreachDrafts'[n] = row
    BY <1>0, <1>d, <2>1, <2>3, AppendProperties, LenProperties
  <2>6. /\ draftDecisions' \in Seq(OutreachDecisions) /\ Len(draftDecisions') = n
        /\ \A d \in DOMAIN outreachDrafts : draftDecisions'[d] = draftDecisions[d]
        /\ draftDecisions'[n] = "none"
    BY <1>0, <1>d, <2>1, AppendProperties, LenProperties DEF OutreachDecisions
  <2>7. OutreachShape'
    <3>1. draftCalls' \in [OutreachCalls -> OutreachCallTypes]
      BY <1>0, <2>1, <2>4
    <3>. QED
      BY <1>0, <2>1, <2>5, <2>6, <3>1 DEF OutreachShape
  <2>8. \A d \in DOMAIN outreachDrafts' : d \in DOMAIN outreachDrafts \/ d = n
    BY <1>d, <2>5
  <2>9. OutreachGrows
    BY <1>d, <2>1, <2>5 DEF OutreachGrows
  <2>10. n \in DOMAIN outreachDrafts'
    BY <1>d, <2>5
  <2>11. OutreachCallOK(call)'
    BY <2>4, <2>10 DEF OutreachCallOK
  <2>12. DraftRowOK(n)'
    <3>1. SourcesStored(Draft(n).sources)' /\ Draft(n)'.proposal = 0
      BY <2>1, <2>2, <2>3, <2>5 DEF SourcesStored, Draft
    <3>2. NeedsReview(n)'
      BY <2>3, <2>5 DEF NeedsReview, Draft
    <3>. QED
      BY <2>6, <3>1, <3>2 DEF DraftRowOK
  <2>13. \A d \in OutreachCalls : draftCalls'[d] = IF d = c THEN call ELSE draftCalls[d]
    BY <1>0, <2>1, <2>4
  <2>14. DraftChecked(n)'
    BY <2>4, <2>13 DEF DraftChecked, DraftAt
  <2>15. CallLeft(c)
    BY <2>1 DEF CallLeft
  <2>16. ASSUME NEW d \in OutreachCalls
         PROVE  draftCalls'[d] = draftCalls[d] \/ (OutreachCallOK(draftCalls[d])' /\ CallLeft(d))
    <3>1. CASE d = c
      <4>1. draftCalls'[d] = call
        BY <2>13, <3>1
      <4>. QED
        BY <2>11, <2>15, <3>1, <4>1 DEF OutreachCallOK
    <3>. QED
      BY <2>13, <3>1
  <2>17. \A d \in DOMAIN outreachDrafts' :
           \/ /\ d \in DOMAIN outreachDrafts
              /\ outreachDrafts'[d] = outreachDrafts[d] /\ draftDecisions'[d] = draftDecisions[d]
           \/ DraftRowOK(d)'
    BY <2>5, <2>6, <2>8, <2>12
  <2>18. \A d \in DOMAIN outreachDrafts' : d \in DOMAIN outreachDrafts \/ DraftChecked(d)'
    BY <2>8, <2>14
  <2>. QED
    BY <1>a, <2>1, <2>7, <2>9, <2>16, <2>17, <2>18
<1>4. ASSUME NEW c \in OutreachCalls, RecordCheck(c)
      PROVE  OutreachShape' /\ OutreachInv'
  <2>. SUFFICES ASSUME NEW CONSTANT old, old = draftCalls[c], NEW CONSTANT d, d = old.draft,
                       NEW CONSTANT ok, ok = Compliant(Draft(d).text),
                       NEW CONSTANT e, e = [draft |-> d, type |-> "outbound_compliance_check", ok |-> ok]
                PROVE  OutreachShape' /\ OutreachInv'
    OBVIOUS
  <2>1. /\ old.pc = "check" /\ complianceEvents' = complianceEvents \cup {e} /\ NextInvestor(c, old.todo)
        /\ UNCHANGED <<sourceOf, outreachDrafts, draftProposals, draftDecisions, draftCut>>
    BY <1>4 DEF RecordCheck, DraftAt, RecordEvent
  <2>2. d \in DOMAIN outreachDrafts /\ d \in Nat /\ old.todo \in SUBSET Investors
    BY <1>0, <2>1, OutreachTyped DEF OutreachCallOK
  <2>3. ok \in BOOLEAN
    BY DEF Compliant
  <2>4. e \in OutreachEvents /\ e.draft = d /\ e.type = "outbound_compliance_check" /\ e.ok = ok
    BY <2>2, <2>3 DEF OutreachEvents
  <2>5. EventTrue(e)
    BY <2>2, <2>4 DEF EventTrue
  <2>6. PICK call \in OutreachCallTypes : OutreachCallOK(call) /\ draftCalls' = [draftCalls EXCEPT ![c] = call]
    BY <1>t, <2>1, <2>2
  <2>7. CallLeft(c)
    BY <2>1, <2>4 DEF CallLeft
  <2>8. complianceEvents' \in SUBSET OutreachEvents /\ complianceEvents \subseteq complianceEvents'
    BY <1>0, <2>1, <2>4
  <2>9. \A x \in complianceEvents' : x \in complianceEvents \/ EventTrue(x)
    BY <2>1, <2>5
  <2>. QED
    BY <1>b, <2>1, <2>6, <2>7, <2>8, <2>9
<1>5. ASSUME NEW c \in OutreachCalls, NEW d \in DOMAIN outreachDrafts, ReviewDraft(c, d)
      PROVE  OutreachShape' /\ OutreachInv'
  <2>. SUFFICES ASSUME NEW CONSTANT passed, passed = PassesReview(d),
                       NEW CONSTANT call, call = [pc |-> "review", draft |-> d, passed |-> passed]
                PROVE  OutreachShape' /\ OutreachInv'
    OBVIOUS
  <2>1. /\ draftCalls[c].pc = "none" /\ draftCalls' = [draftCalls EXCEPT ![c] = call]
        /\ UNCHANGED <<sourceOf, outreachDrafts, draftProposals, draftDecisions, complianceEvents, draftCut>>
    BY <1>5, OutreachTyped DEF ReviewDraft, DraftStart, DraftSet, draftTables
  <2>2. Evidence(d) = Draft(d).sources /\ Evidence(d) # {}
    BY <1>0 DEF DraftRowOK, SourcesStored, Evidence
  <2>3. passed \in BOOLEAN /\ (passed <=> Draft(d).text = "clean")
    BY <2>2 DEF PassesReview
  <2>4. call \in OutreachCallTypes /\ call.pc = "review" /\ call.draft = d /\ call.passed = passed
    BY <1>d, <2>3 DEF OutreachCallTypes
  <2>5. OutreachCallOK(call) /\ CallLeft(c)
    BY <2>1, <2>3, <2>4 DEF OutreachCallOK, CallLeft
  <2>. QED
    BY <1>0, <1>b, <2>1, <2>4, <2>5
<1>6. ASSUME NEW c \in OutreachCalls, RecordReview(c)
      PROVE  OutreachShape' /\ OutreachInv'
  <2>. SUFFICES ASSUME NEW CONSTANT old, old = draftCalls[c], NEW CONSTANT d, d = old.draft,
                       NEW CONSTANT ok, ok = old.passed,
                       NEW CONSTANT e, e = [draft |-> d, type |-> "draft_quality_review", ok |-> ok]
                PROVE  OutreachShape' /\ OutreachInv'
    OBVIOUS
  <2>1. /\ old.pc = "review" /\ complianceEvents' = complianceEvents \cup {e}
        /\ draftCalls' = [draftCalls EXCEPT ![c] = NoDraftCall]
        /\ UNCHANGED <<sourceOf, outreachDrafts, draftProposals, draftDecisions, draftCut>>
    BY <1>6 DEF RecordReview, DraftAt, RecordEvent, DraftDone, DraftSet
  <2>2. /\ d \in DOMAIN outreachDrafts /\ d \in Nat /\ ok \in BOOLEAN
        /\ ok <=> Draft(d).text = "clean"
    BY <1>0, <2>1, OutreachTyped DEF OutreachCallOK
  <2>4. e \in OutreachEvents /\ e.draft = d /\ e.type = "draft_quality_review" /\ e.ok = ok
    BY <2>2 DEF OutreachEvents
  <2>5. EventTrue(e)
    BY <2>2, <2>4 DEF EventTrue
  <2>7. CallLeft(c)
    BY <2>1 DEF CallLeft
  <2>8. complianceEvents' \in SUBSET OutreachEvents /\ complianceEvents \subseteq complianceEvents'
    BY <1>0, <2>1, <2>4
  <2>9. \A x \in complianceEvents' : x \in complianceEvents \/ EventTrue(x)
    BY <2>1, <2>5
  <2>. QED
    BY <1>b, <1>n, <2>1, <2>7, <2>8, <2>9
<1>7. ASSUME NEW c \in OutreachCalls, NEW d \in DOMAIN outreachDrafts, InsertDraftProposal(c, d)
      PROVE  OutreachShape' /\ OutreachInv'
  <2>. SUFFICES ASSUME NEW CONSTANT n, n = Len(draftProposals) + 1,
                       NEW CONSTANT call, call = [pc |-> "link", draft |-> d, proposal |-> n]
                PROVE  OutreachShape' /\ OutreachInv'
    OBVIOUS
  <2>1. /\ draftCalls[c].pc = "none" /\ draftProposals' = Append(draftProposals, d)
        /\ draftCalls' = [draftCalls EXCEPT ![c] = call]
        /\ UNCHANGED <<sourceOf, outreachDrafts, draftDecisions, complianceEvents, draftCut>>
    BY <1>7, OutreachTyped DEF InsertDraftProposal, DraftStart, DraftSet
  <2>2. n \in Nat /\ d \in Nat
    BY <1>d
  <2>3. call \in OutreachCallTypes /\ call.pc = "link" /\ call.draft = d /\ call.proposal = n
    BY <2>2 DEF OutreachCallTypes
  <2>4. /\ draftProposals' \in Seq(Nat) /\ DOMAIN draftProposals' = 1..n
        /\ \A p \in DOMAIN draftProposals : draftProposals'[p] = draftProposals[p]
        /\ draftProposals'[n] = d
    BY <1>0, <1>d, <2>1, <2>2, AppendProperties, LenProperties
  <2>5. OutreachShape'
    <3>1. draftCalls' \in [OutreachCalls -> OutreachCallTypes]
      BY <1>0, <2>1, <2>3
    <3>. QED
      BY <1>0, <2>1, <2>4, <3>1 DEF OutreachShape
  <2>6. OutreachGrows
    BY <1>d, <2>1, <2>4 DEF OutreachGrows
  <2>7. OutreachCallOK(call)'
    BY <1>d, <2>1, <2>2, <2>3, <2>4 DEF OutreachCallOK, ProposalOf
  <2>8. \A x \in OutreachCalls : draftCalls'[x] = IF x = c THEN call ELSE draftCalls[x]
    BY <1>0, <2>1, <2>3
  <2>9. ProposalLinked(n)'
    BY <2>1, <2>3, <2>4, <2>8 DEF ProposalLinked, DraftAt
  <2>10. \A p \in DOMAIN draftProposals' : p \in DOMAIN draftProposals \/ ProposalLinked(p)'
    BY <1>d, <2>2, <2>4, <2>9
  <2>11. CallLeft(c)
    BY <2>1 DEF CallLeft
  <2>12. ASSUME NEW x \in OutreachCalls
         PROVE  draftCalls'[x] = draftCalls[x] \/ (OutreachCallOK(draftCalls[x])' /\ CallLeft(x))
    <3>1. CASE x = c
      <4>1. draftCalls'[x] = call
        BY <2>8, <3>1
      <4>. QED
        BY <2>7, <2>11, <3>1, <4>1 DEF OutreachCallOK
    <3>. QED
      BY <2>8, <3>1
  <2>13. /\ \A x \in DOMAIN outreachDrafts' : x \in DOMAIN outreachDrafts /\ outreachDrafts'[x] = outreachDrafts[x]
                                              /\ draftDecisions'[x] = draftDecisions[x]
         /\ \A e \in complianceEvents' : e \in complianceEvents
    BY <2>1
  <2>. QED
    BY <1>a, <2>5, <2>6, <2>10, <2>12, <2>13
\* One field of a draft changes.
<1>c. ASSUME NEW d \in DOMAIN outreachDrafts, NEW row \in OutreachRows, outreachDrafts' = [outreachDrafts EXCEPT ![d] = row],
             row.text = outreachDrafts[d].text, row.sources = outreachDrafts[d].sources,
             outreachDrafts[d].proposal # 0 => row.proposal # 0,
             row.proposal = 0 \/ ProposalOf(row.proposal, d),
             UNCHANGED <<sourceOf, draftProposals, complianceEvents, draftCut>>,
             NEW decision \in OutreachDecisions, draftDecisions' = [draftDecisions EXCEPT ![d] = decision],
             IF decision = "none" THEN row.status \in {"draft", "proposed"} ELSE row.status = decision,
             draftCalls' \in [OutreachCalls -> OutreachCallTypes],
             \A c \in OutreachCalls : \/ draftCalls'[c] = draftCalls[c]
                                      \/ OutreachCallOK(draftCalls[c])' /\ CallLeft(c)
      PROVE  OutreachShape' /\ OutreachInv'
  <2>1. /\ outreachDrafts' \in Seq(OutreachRows) /\ Len(outreachDrafts') = Len(outreachDrafts)
        /\ \A x \in DOMAIN outreachDrafts : outreachDrafts'[x] = IF x = d THEN row ELSE outreachDrafts[x]
    BY <1>0, <1>c, <1>d, ExceptSeq
  <2>2. /\ draftDecisions' \in Seq(OutreachDecisions) /\ Len(draftDecisions') = Len(draftDecisions)
        /\ \A x \in DOMAIN outreachDrafts : draftDecisions'[x] = IF x = d THEN decision ELSE draftDecisions[x]
    BY <1>0, <1>c, <1>d, ExceptSeq
  <2>3. DOMAIN outreachDrafts' = DOMAIN outreachDrafts
    BY <1>d, <2>1, LenProperties
  <2>4. OutreachShape'
    BY <1>0, <1>c, <2>1, <2>2 DEF OutreachShape
  <2>5. OutreachGrows
    BY <1>c, <2>1, <2>3 DEF OutreachGrows
  <2>6. DraftRowOK(d)'
    <3>0. DraftRowOK(d) /\ outreachDrafts'[d] = row /\ draftDecisions'[d] = decision
      BY <1>0, <1>c, <2>1, <2>2
    <3>1. SourcesStored(Draft(d).sources)'
      BY <1>c, <3>0 DEF DraftRowOK, SourcesStored, Draft
    <3>2. Draft(d)'.proposal = 0 \/ ProposalOf(Draft(d).proposal, d)'
      BY <1>c, <3>0 DEF ProposalOf, Draft
    <3>3. IF draftDecisions'[d] = "none" THEN NeedsReview(d)' ELSE Draft(d)'.status = draftDecisions'[d]
      BY <1>c, <3>0 DEF NeedsReview, Draft
    <3>. QED
      BY <3>1, <3>2, <3>3 DEF DraftRowOK
  <2>7. \A x \in DOMAIN outreachDrafts' :
          \/ /\ x \in DOMAIN outreachDrafts
             /\ outreachDrafts'[x] = outreachDrafts[x] /\ draftDecisions'[x] = draftDecisions[x]
          \/ DraftRowOK(x)'
    BY <2>1, <2>2, <2>3, <2>6
  <2>. QED
    BY <1>a, <1>c, <2>3, <2>4, <2>5, <2>7
<1>8. ASSUME NEW c \in OutreachCalls, LinkProposal(c)
      PROVE  OutreachShape' /\ OutreachInv'
  <2>. SUFFICES ASSUME NEW CONSTANT old, old = draftCalls[c], NEW CONSTANT d, d = old.draft,
                       NEW CONSTANT p, p = old.proposal,
                       NEW CONSTANT was, was = outreachDrafts[d],
                       NEW CONSTANT decision, decision = draftDecisions[d],
                       NEW CONSTANT row, row = [was EXCEPT !.proposal = p]
                PROVE  OutreachShape' /\ OutreachInv'
    OBVIOUS
  <2>1. /\ old.pc = "link" /\ outreachDrafts' = [outreachDrafts EXCEPT ![d] = row]
        /\ draftCalls' = [draftCalls EXCEPT ![c] = NoDraftCall]
        /\ UNCHANGED <<sourceOf, draftProposals, draftDecisions, complianceEvents, draftCut>>
    BY <1>8 DEF LinkProposal, DraftAt, DraftDone, DraftSet
  <2>2. d \in DOMAIN outreachDrafts /\ ProposalOf(p, d)
    BY <1>0, <2>1 DEF OutreachCallOK
  <2>3. p \in Nat /\ p # 0
    BY <1>d, <2>2 DEF ProposalOf
  <2>4. was \in OutreachRows /\ decision \in OutreachDecisions /\ DraftRowOK(d)
    BY <1>0, <1>r, <2>2
  <2>5. /\ row \in OutreachRows /\ row.text = was.text /\ row.sources = was.sources /\ row.proposal = p
        /\ row.status = was.status
    BY <2>3, <2>4 DEF OutreachRows
  <2>6. IF decision = "none" THEN row.status \in {"draft", "proposed"} ELSE row.status = decision
    BY <2>4, <2>5 DEF DraftRowOK, NeedsReview, Draft
  <2>7. draftDecisions' = [draftDecisions EXCEPT ![d] = decision]
    BY <1>0, <2>1
  <2>8. outreachDrafts'[d] = row
    BY <1>0, <1>d, <2>1, <2>2, <2>5, ExceptSeq
  <2>9. CallLeft(c)
    BY <2>1, <2>3, <2>5, <2>8 DEF CallLeft
  <2>10. \A x \in OutreachCalls : draftCalls'[x] = IF x = c THEN NoDraftCall ELSE draftCalls[x]
    BY <1>0, <2>1
  <2>11. ASSUME NEW x \in OutreachCalls
         PROVE  draftCalls'[x] = draftCalls[x] \/ (OutreachCallOK(draftCalls[x])' /\ CallLeft(x))
    <3>1. CASE x = c
      <4>1. draftCalls'[x] = NoDraftCall
        BY <2>10, <3>1
      <4>. QED
        BY <2>9, <3>1, <4>1, OutreachTyped DEF OutreachCallOK
    <3>. QED
      BY <2>10, <3>1
  <2>12. draftCalls' \in [OutreachCalls -> OutreachCallTypes]
    BY <1>0, <2>1, <1>n
  <2>13. /\ outreachDrafts' = [outreachDrafts EXCEPT ![d] = row] /\ row \in OutreachRows
         /\ row.text = outreachDrafts[d].text /\ row.sources = outreachDrafts[d].sources
         /\ row.proposal # 0 /\ ProposalOf(row.proposal, d)
    BY <2>1, <2>2, <2>3, <2>5
  <2>14. /\ UNCHANGED <<sourceOf, draftProposals, complianceEvents, draftCut>>
         /\ d \in DOMAIN outreachDrafts /\ decision \in OutreachDecisions
    BY <2>1, <2>2, <2>4
  <2>. QED
    BY <1>c, <2>6, <2>7, <2>11, <2>12, <2>13, <2>14
<1>9. ASSUME NEW d \in DOMAIN outreachDrafts, NEW status \in {"approved", "rejected"}, DecideDraft(d, status)
      PROVE  OutreachShape' /\ OutreachInv'
  <2>. SUFFICES ASSUME NEW CONSTANT was, was = outreachDrafts[d],
                       NEW CONSTANT row, row = [was EXCEPT !.status = status]
                PROVE  OutreachShape' /\ OutreachInv'
    OBVIOUS
  <2>1. /\ outreachDrafts' = [outreachDrafts EXCEPT ![d] = row]
        /\ draftDecisions' = [draftDecisions EXCEPT ![d] = status]
        /\ UNCHANGED <<sourceOf, draftProposals, complianceEvents, draftCalls, draftCut>>
    BY <1>9 DEF DecideDraft
  <2>2. was \in OutreachRows /\ status \in OutreachDecisions /\ status # "none" /\ DraftRowOK(d)
    BY <1>0, <1>r DEF OutreachDecisions
  <2>3. /\ row \in OutreachRows /\ row.text = was.text /\ row.sources = was.sources
        /\ row.proposal = was.proposal /\ row.status = status
    BY <2>2 DEF OutreachRows
  <2>4. row.proposal = 0 \/ ProposalOf(row.proposal, d)
    BY <2>2, <2>3 DEF DraftRowOK, Draft
  <2>. QED
    BY <1>0, <1>c, <2>1, <2>2, <2>3, <2>4
\* The sources are inserted or moved.
<1>10. ASSUME NEW i \in Investors, InsertInvestorSource(i) \/ \E j \in Investors : MergeInvestors(i, j)
       PROVE  OutreachShape' /\ OutreachInv'
  <2>1. UNCHANGED <<outreachDrafts, draftProposals, complianceEvents, draftCalls, draftDecisions, draftCut>>
    BY <1>10 DEF InsertInvestorSource, MergeInvestors
  <2>2. /\ sourceOf' \in [Sources -> Investors \cup {"none"}]
        /\ \A s \in Sources : sourceOf[s] # "none" => sourceOf'[s] # "none"
    <3>1. CASE InsertInvestorSource(i)
      BY <1>0, <3>1, DraftAssumption DEF InsertInvestorSource, Sources
    <3>2. CASE \E j \in Investors : MergeInvestors(i, j)
      BY <1>0, <3>2, DraftAssumption DEF MergeInvestors
    <3>. QED
      BY <1>10, <3>1, <3>2
  <2>3. OutreachShape'
    BY <1>0, <2>1, <2>2 DEF OutreachShape
  <2>4. OutreachGrows
    BY <2>1, <2>2 DEF OutreachGrows
  <2>. QED
    BY <1>a, <2>1, <2>3, <2>4
<1>11. ASSUME NEW c \in OutreachCalls, DraftCallFails(c)
       PROVE  OutreachShape' /\ OutreachInv'
  <2>. SUFFICES ASSUME NEW CONSTANT old, old = draftCalls[c]
                PROVE  OutreachShape' /\ OutreachInv'
    OBVIOUS
  <2>1. /\ draftCut = {} /\ draftCalls' = [draftCalls EXCEPT ![c] = NoDraftCall]
        /\ UNCHANGED <<sourceOf, outreachDrafts, draftProposals, draftDecisions, complianceEvents>>
    BY <1>11 DEF DraftCallFails, DraftDone, DraftSet, draftTables
  <2>2. /\ old.pc = "check" => <<"draft", old.draft>> \in draftCut'
        /\ old.pc = "link" => <<"proposal", old.proposal>> \in draftCut'
    BY <1>11 DEF DraftCallFails, DraftAt
  <2>3. CallLeft(c)
    BY <2>2 DEF CallLeft
  <2>. QED
    BY <1>0, <1>b, <1>n, <2>1, <2>3
<1>12. CASE UNCHANGED outreachVars
  <2>1. UNCHANGED <<sourceOf, outreachDrafts, draftProposals, complianceEvents, draftCalls, draftDecisions, draftCut>>
    BY <1>12 DEF outreachVars, draftTables
  <2>2. OutreachShape' /\ OutreachGrows
    BY <1>0, <2>1 DEF OutreachShape, OutreachGrows
  <2>. QED
    BY <1>a, <2>1, <2>2
<1>. QED
  BY <1>1, <1>2, <1>3, <1>4, <1>5, <1>6, <1>7, <1>8, <1>9, <1>10, <1>11, <1>12 DEF OutreachNext

LEMMA OutreachBegins == OutreachInit => OutreachShape /\ OutreachInv
<1>. SUFFICES ASSUME OutreachInit PROVE OutreachShape /\ OutreachInv
  OBVIOUS
<1>1. /\ outreachDrafts = <<>> /\ draftProposals = <<>> /\ draftDecisions = <<>> /\ complianceEvents = {}
      /\ draftCalls = [c \in OutreachCalls |-> NoDraftCall] /\ sourceOf = [s \in Sources |-> "none"]
  BY DEF OutreachInit
<1>2. OutreachShape
  BY <1>1, EmptySeq, OutreachTyped DEF OutreachShape
<1>3. DOMAIN outreachDrafts = {} /\ DOMAIN draftProposals = {}
  BY <1>1
<1>. QED
  BY <1>1, <1>2, <1>3, OutreachTyped DEF OutreachInv, OutreachCallOK

LEMMA OutreachCorrect == OutreachSpec => []DraftsAreReviewable
<1>1. OutreachShape /\ OutreachInv => DraftsAreReviewable
  <2>. SUFFICES ASSUME OutreachShape, OutreachInv PROVE DraftsAreReviewable
    OBVIOUS
  <2>1. ASSUME NEW d \in DOMAIN outreachDrafts,
               NEW checks, checks = {e \in complianceEvents : e.draft = d} \ QualityReviews(d)
        PROVE  /\ \A e \in QualityReviews(d) : e.ok <=> Draft(d).text = "clean"
               /\ \A e \in checks : e.ok <=> Draft(d).text # "blocked"
               /\ \/ checks # {} \/ <<"draft", d>> \in draftCut
                  \/ \E c \in OutreachCalls : DraftAt(c, "check") /\ draftCalls[c].draft = d
    <3>1. \A e \in QualityReviews(d) : e.ok <=> Draft(d).text = "clean"
      BY DEF OutreachInv, EventTrue, QualityReviews
    <3>2. \A e \in checks : e \in complianceEvents /\ e.draft = d /\ e.type = "outbound_compliance_check"
      BY <2>1 DEF OutreachShape, OutreachEvents, QualityReviews
    <3>3. \A e \in checks : e.ok <=> Draft(d).text # "blocked"
      BY <3>2 DEF OutreachInv, EventTrue, Compliant
    <3>4. Checked(d) => checks # {}
      BY <2>1 DEF Checked, QualityReviews
    <3>5. DraftChecked(d)
      BY DEF OutreachInv
    <3>. QED
      BY <3>1, <3>3, <3>4, <3>5 DEF DraftChecked
  <2>2. ReviewsAgree
    BY <2>1 DEF ReviewsAgree
  <2>3. DecisionStands
    BY DEF OutreachInv, DraftRowOK, DecisionStands
  <2>4. DOMAIN draftProposals = 1..Len(draftProposals)
    BY LenProperties DEF OutreachShape
  <2>5. \A d \in DOMAIN outreachDrafts :
          /\ ShownProposalOf(d) \in {0, d}
          /\ Draft(d).proposal # 0 => ShownProposalOf(d) = d
    BY DEF OutreachInv, DraftRowOK, ProposalOf, ShownProposalOf
  <2>6. \A d \in DOMAIN outreachDrafts : d # 0
    BY LenProperties DEF OutreachShape
  <2>7. ASSUME NEW p \in DOMAIN draftProposals
        PROVE  \/ ShownProposalOf(draftProposals[p]) # 0 \/ <<"proposal", p>> \in draftCut
               \/ \E c \in OutreachCalls : DraftAt(c, "link") /\ draftCalls[c].proposal = p
    <3>1. ProposalLinked(p)
      BY DEF OutreachInv
    <3>. QED
      BY <2>5, <2>6, <3>1 DEF ProposalLinked
  <2>. QED
    BY <2>2, <2>3, <2>5, <2>7 DEF ProposalsAreLinked, DraftsAreReviewable
<1>. QED
  BY <1>1, OutreachBegins, OutreachStep, PTL DEF OutreachSpec

LEMMA Widened ==
    ASSUME NEW S, NEW x, NEW s \in Seq(S)
    PROVE  s \in Seq(S \cup {x})
  <1>1. \A i \in DOMAIN s : s[i] \in S
    BY ElementOfSeq, LenProperties
  <1>. QED
    BY <1>1, Narrowed

\* There are no more drafts and proposals than the bounds.
OutreachMore == Len(outreachDrafts) <= MaxDraftRows /\ Len(draftProposals) <= MaxDraftProposals

LEMMA OutreachMoreStep == OutreachShape /\ OutreachMore /\ [OutreachNext]_outreachVars => OutreachMore'
<1>. SUFFICES ASSUME OutreachShape, OutreachMore, [OutreachNext]_outreachVars PROVE OutreachMore'
  OBVIOUS
<1>0. Len(outreachDrafts) \in Nat /\ Len(draftProposals) \in Nat
  BY LenProperties DEF OutreachShape
<1>1. \/ UNCHANGED outreachDrafts
      \/ \E row : outreachDrafts' = Append(outreachDrafts, row) /\ Len(outreachDrafts) < MaxDraftRows
      \/ \E d, row : outreachDrafts' = [outreachDrafts EXCEPT ![d] = row]
  BY DEF OutreachNext, outreachVars, draftTables, StartDrafts, ReadSources, InsertDraft, RecordCheck,
         ReviewDraft, RecordReview, InsertDraftProposal, LinkProposal, DecideDraft, InsertInvestorSource,
         MergeInvestors, DraftCallFails
<1>2. \/ UNCHANGED draftProposals
      \/ \E d : draftProposals' = Append(draftProposals, d) /\ Len(draftProposals) < MaxDraftProposals
  BY DEF OutreachNext, outreachVars, draftTables, StartDrafts, ReadSources, InsertDraft, RecordCheck,
         ReviewDraft, RecordReview, InsertDraftProposal, LinkProposal, DecideDraft, InsertInvestorSource,
         MergeInvestors, DraftCallFails
<1>3. Len(outreachDrafts') <= MaxDraftRows
  <2>1. ASSUME NEW row, outreachDrafts' = Append(outreachDrafts, row), Len(outreachDrafts) < MaxDraftRows
        PROVE  Len(outreachDrafts') <= MaxDraftRows
    <3>1. outreachDrafts \in Seq(OutreachRows \cup {row})
      BY Widened DEF OutreachShape
    <3>2. Len(outreachDrafts') = Len(outreachDrafts) + 1
      BY <2>1, <3>1, AppendProperties
    <3>. QED
      BY <1>0, <2>1, <3>2, DraftAssumption
  <2>2. ASSUME NEW d, NEW row, outreachDrafts' = [outreachDrafts EXCEPT ![d] = row]
        PROVE  Len(outreachDrafts') = Len(outreachDrafts)
    <3>1. outreachDrafts \in [1..Len(outreachDrafts) -> OutreachRows]
      BY LenProperties DEF OutreachShape
    <3>2. DOMAIN outreachDrafts' = 1..Len(outreachDrafts)
      BY <2>2, <3>1
    <3>. QED
      BY <1>0, <3>2
  <2>. QED
    BY <1>1, <2>1, <2>2 DEF OutreachMore
<1>4. Len(draftProposals') <= MaxDraftProposals
  <2>1. ASSUME NEW d, draftProposals' = Append(draftProposals, d), Len(draftProposals) < MaxDraftProposals
        PROVE  Len(draftProposals') <= MaxDraftProposals
    <3>1. draftProposals \in Seq(Nat \cup {d})
      BY Widened DEF OutreachShape
    <3>2. Len(draftProposals') = Len(draftProposals) + 1
      BY <2>1, <3>1, AppendProperties
    <3>. QED
      BY <1>0, <2>1, <3>2, DraftAssumption
  <2>. QED
    BY <1>2, <2>1 DEF OutreachMore
<1>. QED
  BY <1>3, <1>4 DEF OutreachMore

LEMMA OutreachTypesFollow == OutreachShape /\ OutreachInv /\ OutreachMore => OutreachTypeOK
<1>. SUFFICES ASSUME OutreachShape, OutreachInv, OutreachMore PROVE OutreachTypeOK
  OBVIOUS
<1>1. /\ DOMAIN outreachDrafts = 1..Len(outreachDrafts) /\ Len(outreachDrafts) \in Nat
      /\ DOMAIN draftProposals = 1..Len(draftProposals) /\ Len(draftProposals) \in Nat
  BY LenProperties DEF OutreachShape
<1>2. outreachDrafts \in Seq(DraftRows)
  <2>1. \A d \in DOMAIN outreachDrafts : outreachDrafts[d] \in OutreachRows
    BY ElementOfSeq, <1>1 DEF OutreachShape
  <2>2. \A d \in DOMAIN outreachDrafts : outreachDrafts[d].proposal = 0
          \/ outreachDrafts[d].proposal \in DOMAIN draftProposals
    BY DEF OutreachInv, DraftRowOK, ProposalOf, Draft
  <2>3. \A d \in DOMAIN outreachDrafts : outreachDrafts[d].proposal \in 0..MaxDraftProposals
    BY <1>1, <2>2, DraftAssumption DEF OutreachMore
  <2>4. \A d \in DOMAIN outreachDrafts : outreachDrafts[d] \in DraftRows
    BY <2>1, <2>3 DEF OutreachRows, DraftRows
  <2>. QED
    BY <2>4, Narrowed DEF OutreachShape
<1>3. draftProposals \in Seq(DOMAIN outreachDrafts)
  <2>1. \A p \in DOMAIN draftProposals : draftProposals[p] \in DOMAIN outreachDrafts
    BY DEF OutreachInv, ProposalLinked
  <2>. QED
    BY <2>1, Narrowed DEF OutreachShape
<1>4. complianceEvents \subseteq Events
  <2>1. \A e \in complianceEvents : e.draft \in DOMAIN outreachDrafts
    BY DEF OutreachInv, EventTrue
  <2>2. \A e \in complianceEvents : e.draft \in 1..MaxDraftRows
    BY <1>1, <2>1, DraftAssumption DEF OutreachMore
  <2>. QED
    BY <2>2 DEF OutreachShape, OutreachEvents, Events
<1>5. draftDecisions \in [DOMAIN outreachDrafts -> {"none", "approved", "rejected"}]
  BY <1>1, LenProperties DEF OutreachShape, OutreachDecisions
<1>. QED
  BY <1>2, <1>3, <1>4, <1>5 DEF OutreachTypeOK, OutreachShape, OutreachMore

LEMMA DraftsTyped == OutreachSpec => []OutreachTypeOK
<1>1. OutreachInit => OutreachMore
  <2>. SUFFICES ASSUME OutreachInit PROVE OutreachMore
    OBVIOUS
  <2>1. Len(outreachDrafts) = 0 /\ Len(draftProposals) = 0
    BY DEF OutreachInit
  <2>. QED
    BY <2>1, DraftAssumption DEF OutreachMore
<1>. QED
  BY <1>1, OutreachBegins, OutreachStep, OutreachMoreStep, OutreachTypesFollow, PTL DEF OutreachSpec

-----------------------------------------------------------------------------
(* DailyTasks: a commitment has its task or the one found for it.              *)

\* The task of t is there, or its session is gone and deletes it.
TaskStays(t) == tasks[t] > 0 \/ closed[t] > 0 \/ (t \in DailySessions /\ dailyEnd[t] = "gone")

\* A call of its own is under way, or was cut, or found a closed task, or it has a task.
TaskKept(o) ==
    \/ DailyBusy(o) \/ o \in dailyCut \/ o \in unlisted
    \/ \E t \in Owners : <<o, t>> \in standIn /\ TaskStays(t)

DailyInv ==
    /\ DailyTypeOK
    /\ \A c \in DailyCalls : dailyCalls[c].pc \in {"deleteTasks", "deleteCommitments"} =>
         dailyCalls[c].owner \in DailySessions /\ dailyEnd[dailyCalls[c].owner] = "gone"
    /\ \A o \in commitments : TaskKept(o)

DailyCallTypes == {NoDaily}
    \cup [pc : {"insert", "search", "task", "deleteTasks", "deleteCommitments"}, owner : Owners]

LEMMA DailyStep == DailyInv /\ [DailyNext]_dailyVars => DailyInv'
<1>. SUFFICES ASSUME DailyInv, [DailyNext]_dailyVars PROVE DailyInv'
  OBVIOUS
<1>0. /\ commitments \subseteq Owners /\ unlisted \subseteq Owners /\ dailyCut \subseteq Owners
      /\ tasks \in [Owners -> Nat] /\ closed \in [Owners -> Nat] /\ standIn \subseteq Owners \X Owners
      /\ dailyEnd \in [DailySessions -> {"live", "saved", "gone"}]
      /\ dailyCalls \in [DailyCalls -> DailyCallTypes]
      /\ \A c \in DailyCalls : dailyCalls[c].pc \in {"deleteTasks", "deleteCommitments"} =>
           dailyCalls[c].owner \in DailySessions /\ dailyEnd[dailyCalls[c].owner] = "gone"
      /\ \A o \in commitments : TaskKept(o)
  BY DEF DailyInv, DailyTypeOK, DailyCallTypes
<1>n. NoDaily \in DailyCallTypes /\ NoDaily.pc = "none"
  BY DEF DailyCallTypes, NoDaily
<1>t. \A call \in DailyCallTypes : call.pc # "none" =>
        /\ call # NoDaily /\ call.owner \in Owners
        /\ call \in [pc : {"insert", "search", "task", "deleteTasks", "deleteCommitments"}, owner : Owners]
  BY DEF DailyCallTypes, NoDaily
\* A step that keeps the tasks of sessions that go on: a call pays what it owes, or goes on.
<1>a. ASSUME dailyCalls' \in [DailyCalls -> DailyCallTypes],
             commitments' \subseteq Owners, unlisted' \subseteq Owners, dailyCut' \subseteq Owners,
             tasks' \in [Owners -> Nat], closed' \in [Owners -> Nat], standIn' \subseteq Owners \X Owners,
             dailyEnd' \in [DailySessions -> {"live", "saved", "gone"}],
             \A d \in DailyCalls : dailyCalls'[d].pc \in {"deleteTasks", "deleteCommitments"} =>
               dailyCalls'[d].owner \in DailySessions /\ dailyEnd'[dailyCalls'[d].owner] = "gone",
             standIn \subseteq standIn', dailyCut \subseteq dailyCut', unlisted \subseteq unlisted',
             \A t \in Owners : TaskStays(t) => TaskStays(t)',
             \A o \in commitments' : TaskKept(o)' \/ (o \in commitments /\ (DailyBusy(o) => DailyBusy(o)'))
      PROVE  DailyInv'
  <2>1. DailyTypeOK'
    BY <1>a DEF DailyTypeOK, DailyCallTypes
  <2>2. ASSUME NEW o \in commitments' PROVE TaskKept(o)'
    <3>1. CASE o \in commitments /\ (DailyBusy(o) => DailyBusy(o)')
      <4>0. TaskKept(o)
        BY <1>0, <3>1
      <4>1. CASE DailyBusy(o)
        BY <3>1, <4>1 DEF TaskKept
      <4>2. CASE o \in dailyCut \/ o \in unlisted
        BY <1>a, <4>2 DEF TaskKept
      <4>3. CASE \E t \in Owners : <<o, t>> \in standIn /\ TaskStays(t)
        BY <1>a, <4>3 DEF TaskKept
      <4>. QED
        BY <4>0, <4>1, <4>2, <4>3 DEF TaskKept
    <3>. QED
      BY <1>a, <2>2, <3>1
  <2>. QED
    BY <1>a, <2>1, <2>2 DEF DailyInv
\* A step of one call, which starts or goes on with what it is, or ends and has paid.
<1>m. ASSUME NEW c \in DailyCalls, NEW call \in DailyCallTypes, dailyCalls' = [dailyCalls EXCEPT ![c] = call],
             commitments' \subseteq Owners, unlisted' \subseteq Owners, dailyCut' \subseteq Owners,
             tasks' \in [Owners -> Nat], closed' \in [Owners -> Nat], standIn' \subseteq Owners \X Owners,
             dailyEnd' \in [DailySessions -> {"live", "saved", "gone"}],
             call.pc \in {"deleteTasks", "deleteCommitments"} =>
               call.owner \in DailySessions /\ dailyEnd'[call.owner] = "gone",
             standIn \subseteq standIn', dailyCut \subseteq dailyCut', unlisted \subseteq unlisted',
             \A s \in DailySessions : dailyEnd[s] = "gone" => dailyEnd'[s] = "gone",
             \A t \in Owners : TaskStays(t) => TaskStays(t)',
             \A o \in commitments' : o \in commitments \/ (call # NoDaily /\ call.owner = o),
             dailyCalls[c] # NoDaily =>
               \/ call # NoDaily /\ call.owner = dailyCalls[c].owner
               \/ \A o \in commitments' : o = dailyCalls[c].owner => TaskKept(o)'
      PROVE  DailyInv'
  <2>1. \A d \in DailyCalls : dailyCalls'[d] = IF d = c THEN call ELSE dailyCalls[d]
    BY <1>0, <1>m
  <2>2. dailyCalls' \in [DailyCalls -> DailyCallTypes]
    BY <1>0, <1>m
  <2>3. \A d \in DailyCalls : dailyCalls'[d].pc \in {"deleteTasks", "deleteCommitments"} =>
           dailyCalls'[d].owner \in DailySessions /\ dailyEnd'[dailyCalls'[d].owner] = "gone"
    BY <1>0, <1>m, <2>1
  <2>4. ASSUME NEW o \in commitments' PROVE TaskKept(o)' \/ (o \in commitments /\ (DailyBusy(o) => DailyBusy(o)'))
    <3>1. CASE call # NoDaily /\ call.owner = o
      BY <2>1, <3>1 DEF TaskKept, DailyBusy
    <3>2. CASE o \in commitments /\ ~(call # NoDaily /\ call.owner = o)
      <4>. SUFFICES ASSUME DailyBusy(o) PROVE TaskKept(o)' \/ DailyBusy(o)'
        BY <3>2
      <4>1. PICK d \in DailyCalls : dailyCalls[d] # NoDaily /\ dailyCalls[d].owner = o
        BY DEF DailyBusy
      <4>2. CASE d = c
        BY <1>m, <2>4, <3>2, <4>1, <4>2
      <4>3. CASE d # c
        BY <2>1, <4>1, <4>3 DEF DailyBusy
      <4>. QED
        BY <4>2, <4>3
    <3>. QED
      BY <1>m, <2>4, <3>1, <3>2
  <2>. QED
    BY <1>a, <1>m, <2>2, <2>3, <2>4
<1>1. ASSUME NEW c \in DailyCalls, NEW o \in Owners, StartCommitment(c, o)
      PROVE  DailyInv'
  <2>. DEFINE call == [pc |-> "insert", owner |-> o]
  <2>1. /\ dailyCalls[c] = NoDaily /\ dailyCalls' = [dailyCalls EXCEPT ![c] = call]
        /\ UNCHANGED <<commitments, tasks, closed, dailyEnd, standIn, unlisted, dailyCut>>
    BY <1>1 DEF StartCommitment, DailyStart
  <2>2. call \in DailyCallTypes /\ call.pc = "insert"
    BY DEF DailyCallTypes
  <2>k. \A t \in Owners : TaskStays(t) => TaskStays(t)'
    BY <2>1 DEF TaskStays
  <2>. HIDE DEF call
  <2>. QED
    BY <1>0, <1>m, <2>1, <2>2, <2>k
<1>2. ASSUME NEW c \in DailyCalls, NEW s \in DailySessions, SaveSession(c, s)
      PROVE  DailyInv'
  <2>1. /\ dailyEnd' = [dailyEnd EXCEPT ![s] = "saved"] /\ dailyEnd[s] = "live"
        /\ UNCHANGED <<commitments, tasks, closed, standIn, unlisted, dailyCut>>
    BY <1>2 DEF SaveSession
  <2>2. /\ dailyEnd' \in [DailySessions -> {"live", "saved", "gone"}]
        /\ \A x \in DailySessions : dailyEnd[x] = "gone" => dailyEnd'[x] = "gone"
    BY <1>0, <2>1
  <2>k. \A t \in Owners : TaskStays(t) => TaskStays(t)'
    BY <2>1, <2>2 DEF TaskStays
  <2>3. CASE s \in commitments
    <3>1. dailyCalls' = dailyCalls
      BY <1>2, <2>3 DEF SaveSession
    <3>2. \A c1 \in DailyCalls : dailyCalls'[c1].pc \in {"deleteTasks", "deleteCommitments"} =>
           dailyCalls'[c1].owner \in DailySessions /\ dailyEnd'[dailyCalls'[c1].owner] = "gone"
      BY <1>0, <2>2, <3>1
    <3>3. \A o : DailyBusy(o)' <=> DailyBusy(o)
      BY <3>1 DEF DailyBusy
    <3>. QED
      BY <1>0, <1>a, <2>1, <2>2, <2>k, <3>1, <3>2, <3>3
  <2>4. CASE s \notin commitments
    <3>. DEFINE call == [pc |-> "insert", owner |-> s]
    <3>1. dailyCalls[c] = NoDaily /\ dailyCalls' = [dailyCalls EXCEPT ![c] = call]
      BY <1>2, <2>4 DEF SaveSession, DailyStart
    <3>2. call \in DailyCallTypes /\ call.pc = "insert"
      BY DEF DailyCallTypes, Owners
    <3>. HIDE DEF call
    <3>. QED
      BY <1>0, <1>m, <2>1, <2>2, <2>k, <3>1, <3>2
  <2>. QED
    BY <2>3, <2>4
<1>3. ASSUME NEW c \in DailyCalls, NEW s \in DailySessions, StartDeletion(c, s)
      PROVE  DailyInv'
  <2>. DEFINE call == [pc |-> "deleteTasks", owner |-> s]
  <2>1. /\ dailyCalls[c] = NoDaily /\ dailyCalls' = [dailyCalls EXCEPT ![c] = call]
        /\ dailyEnd' = [dailyEnd EXCEPT ![s] = "gone"] /\ UNCHANGED <<commitments, tasks, closed, standIn, unlisted, dailyCut>>
    BY <1>3 DEF StartDeletion, DailyStart
  <2>2. call \in DailyCallTypes /\ call.owner = s
    BY DEF DailyCallTypes, Owners
  <2>3. /\ dailyEnd' \in [DailySessions -> {"live", "saved", "gone"}] /\ dailyEnd'[s] = "gone"
        /\ \A x \in DailySessions : dailyEnd[x] = "gone" => dailyEnd'[x] = "gone"
    BY <1>0, <2>1
  <2>k. \A t \in Owners : TaskStays(t) => TaskStays(t)'
    BY <2>1, <2>3 DEF TaskStays
  <2>. HIDE DEF call
  <2>. QED
    BY <1>0, <1>m, <2>1, <2>2, <2>3, <2>k
\* A call goes on from where it is.
<1>b. ASSUME NEW c \in DailyCalls, NEW pc \in {"search", "task", "deleteCommitments"}, DailyGo(c, pc),
             dailyCalls[c].pc # "none",
             pc = "deleteCommitments" => dailyCalls[c].pc = "deleteTasks",
             UNCHANGED <<dailyEnd, standIn, unlisted, dailyCut>>, commitments' \subseteq Owners,
             tasks' \in [Owners -> Nat], closed' \in [Owners -> Nat],
             \A t \in Owners : TaskStays(t) => TaskStays(t)',
             \A o \in commitments' : o \in commitments \/ dailyCalls[c].owner = o
      PROVE  DailyInv'
  <2>. SUFFICES ASSUME NEW CONSTANT old, old = dailyCalls[c],
                       NEW CONSTANT call, call = [old EXCEPT !.pc = pc]
                PROVE  DailyInv'
    OBVIOUS
  <2>1. /\ call \in DailyCallTypes /\ call.owner = old.owner /\ call.pc = pc /\ call # NoDaily
        /\ dailyCalls' = [dailyCalls EXCEPT ![c] = call]
    <3>1. old \in [pc : {"insert", "search", "task", "deleteTasks", "deleteCommitments"}, owner : Owners]
      BY <1>0, <1>b, <1>t
    <3>2. call \in DailyCallTypes /\ call.owner = old.owner /\ call.pc = pc
      BY <3>1 DEF DailyCallTypes
    <3>. QED
      BY <1>b, <1>n, <3>2 DEF DailyGo
  <2>2. call.pc \in {"deleteTasks", "deleteCommitments"} =>
          call.owner \in DailySessions /\ dailyEnd'[call.owner] = "gone"
    BY <1>0, <1>b, <2>1
  <2>. QED
    BY <1>0, <1>m, <1>b, <2>1, <2>2
<1>4. ASSUME NEW c \in DailyCalls, InsertCommitment(c)
      PROVE  DailyInv'
  <2>1. /\ dailyCalls[c].pc = "insert" /\ commitments' = commitments \cup {dailyCalls[c].owner}
        /\ DailyGo(c, "search") /\ UNCHANGED <<tasks, closed, dailyEnd, standIn, unlisted, dailyCut>>
    BY <1>4 DEF InsertCommitment, DailyAt
  <2>2. dailyCalls[c].owner \in Owners
    BY <1>0, <1>t, <2>1
  <2>3. \A t \in Owners : TaskStays(t) => TaskStays(t)'
    BY <2>1 DEF TaskStays
  <2>. QED
    BY <1>0, <1>b, <2>1, <2>2, <2>3
<1>5. ASSUME NEW c \in DailyCalls, FindNoTask(c)
      PROVE  DailyInv'
  <2>1. dailyCalls[c].pc = "search" /\ DailyGo(c, "task") /\ UNCHANGED <<commitments, tasks, closed, dailyEnd, standIn, unlisted, dailyCut>>
    BY <1>5 DEF FindNoTask, DailyAt
  <2>2. \A t \in Owners : TaskStays(t) => TaskStays(t)'
    BY <2>1 DEF TaskStays
  <2>. QED
    BY <1>0, <1>b, <2>1, <2>2
<1>6. ASSUME NEW c \in DailyCalls, DeleteTasks(c)
      PROVE  DailyInv'
  <2>1. /\ dailyCalls[c].pc = "deleteTasks" /\ DailyGo(c, "deleteCommitments")
        /\ tasks' = [tasks EXCEPT ![dailyCalls[c].owner] = 0]
        /\ closed' = [closed EXCEPT ![dailyCalls[c].owner] = 0]
        /\ UNCHANGED <<commitments, dailyEnd, standIn, unlisted, dailyCut>>
    BY <1>6 DEF DeleteTasks, DailyAt
  <2>2. dailyCalls[c].owner \in DailySessions /\ dailyEnd[dailyCalls[c].owner] = "gone"
    BY <1>0, <2>1
  <2>3. \A t \in Owners : TaskStays(t) => TaskStays(t)'
    <3>. SUFFICES ASSUME NEW t \in Owners, TaskStays(t) PROVE TaskStays(t)'
      OBVIOUS
    <3>1. CASE t = dailyCalls[c].owner
      BY <2>1, <2>2, <3>1 DEF TaskStays
    <3>2. CASE t # dailyCalls[c].owner
      BY <1>0, <2>1, <3>2 DEF TaskStays
    <3>. QED
      BY <3>1, <3>2
  <2>4. tasks' \in [Owners -> Nat] /\ closed' \in [Owners -> Nat]
    BY <1>0, <2>1
  <2>. QED
    BY <1>0, <1>b, <2>1, <2>2, <2>3, <2>4
\* A call ends, and has paid.
<1>c. ASSUME NEW c \in DailyCalls, DailyDone(c), dailyCalls[c].pc # "none",
             commitments' \subseteq commitments, tasks' \in [Owners -> Nat], UNCHANGED <<closed, dailyEnd>>,
             \A t \in Owners : tasks[t] > 0 => tasks'[t] > 0,
             dailyCut \subseteq dailyCut', dailyCut' \subseteq Owners,
             unlisted \subseteq unlisted', unlisted' \subseteq Owners,
             standIn \subseteq standIn', standIn' \subseteq Owners \X Owners,
             \/ dailyCalls[c].owner \notin commitments' \/ dailyCalls[c].owner \in dailyCut'
             \/ dailyCalls[c].owner \in unlisted'
             \/ \E t \in Owners : <<dailyCalls[c].owner, t>> \in standIn' /\ tasks'[t] > 0
      PROVE  DailyInv'
  <2>. SUFFICES ASSUME NEW CONSTANT o, o = dailyCalls[c].owner
                PROVE  DailyInv'
    OBVIOUS
  <2>1. dailyCalls' = [dailyCalls EXCEPT ![c] = NoDaily] /\ commitments' \subseteq Owners
    BY <1>0, <1>c DEF DailyDone
  <2>2. o \in commitments' => TaskKept(o)'
    BY <1>c DEF TaskKept, TaskStays
  <2>3. /\ \A s \in DailySessions : dailyEnd[s] = "gone" => dailyEnd'[s] = "gone"
        /\ dailyEnd' \in [DailySessions -> {"live", "saved", "gone"}] /\ closed' \in [Owners -> Nat]
    BY <1>0, <1>c
  <2>4. \A t \in Owners : TaskStays(t) => TaskStays(t)'
    BY <1>c DEF TaskStays
  <2>. QED
    BY <1>m, <1>c, <1>n, <2>1, <2>2, <2>3, <2>4
<1>7. ASSUME NEW c \in DailyCalls, FindTask(c)
      PROVE  DailyInv'
  <2>. SUFFICES ASSUME NEW CONSTANT o, o = dailyCalls[c].owner
                PROVE  DailyInv'
    OBVIOUS
  <2>1. /\ dailyCalls[c].pc = "search" /\ DailyDone(c)
        /\ UNCHANGED <<commitments, tasks, closed, dailyEnd, dailyCut>>
    BY <1>7 DEF FindTask, DailyAt
  <2>2. PICK t \in Owners :
          \/ tasks[t] > 0 /\ standIn' = standIn \cup {<<o, t>>} /\ UNCHANGED unlisted
          \/ unlisted' = unlisted \cup {o} /\ UNCHANGED standIn
    BY <1>7 DEF FindTask
  <2>3. o \in Owners
    BY <1>0, <1>t, <2>1
  <2>4. CASE tasks[t] > 0 /\ standIn' = standIn \cup {<<o, t>>} /\ UNCHANGED unlisted
    BY <1>0, <1>c, <2>1, <2>3, <2>4
  <2>5. CASE unlisted' = unlisted \cup {o} /\ UNCHANGED standIn
    BY <1>0, <1>c, <2>1, <2>3, <2>5
  <2>. QED
    BY <2>2, <2>4, <2>5
<1>8. ASSUME NEW c \in DailyCalls, InsertTask(c)
      PROVE  DailyInv'
  <2>. SUFFICES ASSUME NEW CONSTANT o, o = dailyCalls[c].owner
                PROVE  DailyInv'
    OBVIOUS
  <2>1. /\ dailyCalls[c].pc = "task" /\ tasks' = [tasks EXCEPT ![o] = tasks[o] + 1] /\ DailyDone(c)
        /\ standIn' = standIn \cup {<<o, o>>} /\ UNCHANGED <<commitments, closed, dailyEnd, unlisted, dailyCut>>
    BY <1>8 DEF InsertTask, DailyAt
  <2>2. o \in Owners
    BY <1>0, <1>t, <2>1
  <2>3. tasks' \in [Owners -> Nat] /\ tasks'[o] > 0 /\ \A t \in Owners : tasks[t] > 0 => tasks'[t] > 0
    BY <1>0, <2>1, <2>2
  <2>. QED
    BY <1>0, <1>c, <2>1, <2>2, <2>3
<1>9. ASSUME NEW c \in DailyCalls, DeleteCommitments(c)
      PROVE  DailyInv'
  <2>1. /\ dailyCalls[c].pc = "deleteCommitments" /\ commitments' = commitments \ {dailyCalls[c].owner}
        /\ DailyDone(c) /\ UNCHANGED <<tasks, closed, dailyEnd, standIn, unlisted, dailyCut>>
    BY <1>9 DEF DeleteCommitments, DailyAt
  <2>. QED
    BY <1>0, <1>c, <2>1
<1>10. ASSUME NEW c \in DailyCalls, DailyFails(c)
       PROVE  DailyInv'
  <2>1. /\ dailyCalls[c] # NoDaily /\ dailyCut = {} /\ dailyCut' = {dailyCalls[c].owner} /\ DailyDone(c)
        /\ UNCHANGED <<commitments, tasks, closed, dailyEnd, standIn, unlisted>>
    BY <1>10 DEF DailyFails
  <2>2. dailyCalls[c].pc # "none" /\ dailyCalls[c].owner \in Owners
    BY <1>0, <2>1 DEF DailyCallTypes
  <2>. QED
    BY <1>0, <1>c, <2>1, <2>2
\* The user's steps take no task away.
<1>d. ASSUME NEW o \in Owners, CloseTask(o) \/ ReopenTask(o) PROVE DailyInv'
  <2>1. UNCHANGED <<commitments, dailyEnd, dailyCalls, standIn, unlisted, dailyCut>>
    BY <1>d DEF CloseTask, ReopenTask
  <2>2. /\ tasks' \in [Owners -> Nat] /\ closed' \in [Owners -> Nat]
        /\ \A t \in Owners : tasks[t] > 0 \/ closed[t] > 0 => tasks'[t] > 0 \/ closed'[t] > 0
    <3>1. CASE CloseTask(o)
      <4>1. /\ tasks[o] > 0 /\ tasks' = [tasks EXCEPT ![o] = tasks[o] - 1]
            /\ closed' = [closed EXCEPT ![o] = closed[o] + 1]
        BY <3>1 DEF CloseTask
      <4>. QED
        BY <1>0, <4>1
    <3>2. CASE ReopenTask(o)
      <4>1. /\ closed[o] > 0 /\ closed' = [closed EXCEPT ![o] = closed[o] - 1]
            /\ tasks' = [tasks EXCEPT ![o] = tasks[o] + 1]
        BY <3>2 DEF ReopenTask
      <4>. QED
        BY <1>0, <4>1
    <3>. QED
      BY <1>d, <3>1, <3>2
  <2>3. \A t \in Owners : TaskStays(t) => TaskStays(t)'
    BY <2>1, <2>2 DEF TaskStays
  <2>4. \A x : DailyBusy(x)' <=> DailyBusy(x)
    BY <2>1 DEF DailyBusy
  <2>. QED
    BY <1>0, <1>a, <2>1, <2>2, <2>3, <2>4
<1>11. CASE UNCHANGED dailyVars
  <2>1. UNCHANGED <<commitments, tasks, closed, dailyEnd, dailyCalls, standIn, unlisted, dailyCut>>
    BY <1>11 DEF dailyVars
  <2>2. \A o : /\ DailyBusy(o)' <=> DailyBusy(o)
               /\ TaskStays(o) => TaskStays(o)'
    BY <2>1 DEF DailyBusy, TaskStays
  <2>. QED
    BY <1>0, <1>a, <2>1, <2>2
<1>. QED
  BY <1>1, <1>2, <1>3, <1>4, <1>5, <1>6, <1>7, <1>8, <1>9, <1>10, <1>11, <1>d DEF DailyNext

LEMMA DailyBegins == DailyInit => DailyInv
<1>. SUFFICES ASSUME DailyInit PROVE DailyInv
  OBVIOUS
<1>1. DailyTypeOK
  BY DEF DailyInit, DailyTypeOK
<1>2. commitments = {} /\ \A c \in DailyCalls : dailyCalls[c].pc = "none"
  BY DEF DailyInit, NoDaily
<1>. QED
  BY <1>1, <1>2 DEF DailyInv

LEMMA DailyCorrect == DailySpec => []CommitmentHasTask
<1>1. DailyInv => CommitmentHasTask
  <2>. SUFFICES ASSUME DailyInv, NEW o \in commitments, ~DailyBusy(o), o \notin dailyCut \cup unlisted,
                       \A t \in Owners : tasks[t] = 0
                PROVE  \E t \in Owners :
                         /\ <<o, t>> \in standIn
                         /\ closed[t] > 0 \/ (t \in DailySessions /\ dailyEnd[t] = "gone")
    BY DEF CommitmentHasTask
  <2>. QED
    BY DEF DailyInv, TaskKept, TaskStays
<1>. QED
  BY <1>1, DailyBegins, DailyStep, PTL DEF DailySpec

LEMMA DaysTyped == DailySpec => []DailyTypeOK
<1>1. DailyInv => DailyTypeOK
  BY DEF DailyInv
<1>. QED
  BY <1>1, DailyBegins, DailyStep, PTL DEF DailySpec

-----------------------------------------------------------------------------
(* DayDigest: a period shows its newest digest, and one that was there when the  *)
(* call of another began is stale.                                            *)

DigestRows == [period : Periods, read : Nat, after : Nat, stale : BOOLEAN]
DigestCallTypes == {NoDigest}
    \cup [pc : {"mark", "insert"}, period : Periods, read : Nat, after : Nat]

DigestShape ==
    /\ version \in Nat /\ digests \in Seq(DigestRows)
    /\ digestCalls \in [DigestCalls -> DigestCallTypes] /\ digestCut \subseteq Periods

DigestsOf(p) == {i \in DOMAIN digests : digests[i].period = p}

\* What a call knows of the digests that were there when it began, and of m, one of them.
CallKnows(call, m) == call # NoDigest /\ digests[m].period = call.period /\ m <= call.after =>
    digests[m].read <= call.read /\ (call.pc = "insert" => digests[m].stale)

\* The newest is shown.
NewestIs(m, p) == m \in DigestsOf(p) /\ ~digests[m].stale /\ \A i \in DigestsOf(p) : i <= m
Shows(p) ==
    \/ DigestsOf(p) = {} \/ p \in digestCut
    \/ \E c \in DigestCalls : digestCalls[c].pc = "insert" /\ digestCalls[c].period = p
    \/ \E m \in DigestsOf(p) : NewestIs(m, p)

DigestInv ==
    /\ \A i \in DOMAIN digests : digests[i].read <= version /\ digests[i].after < i
    /\ \A c \in DigestCalls : digestCalls[c] # NoDigest =>
         digestCalls[c].read <= version /\ digestCalls[c].after <= Len(digests)
    /\ \A c \in DigestCalls, m \in DOMAIN digests :
         \A call : call = digestCalls[c] => CallKnows(call, m)
    /\ \A i, j \in DOMAIN digests : digests[i].period = digests[j].period /\ i <= digests[j].after =>
         digests[i].stale /\ digests[i].read <= digests[j].read
    /\ \A p \in Periods : Shows(p)

LEMMA DigestStep == DigestShape /\ DigestInv /\ [DigestNext]_digestVars => DigestShape' /\ DigestInv'
<1>. SUFFICES ASSUME DigestShape, DigestInv, [DigestNext]_digestVars PROVE DigestShape' /\ DigestInv'
  OBVIOUS
<1>0. /\ version \in Nat /\ digests \in Seq(DigestRows)
      /\ digestCalls \in [DigestCalls -> DigestCallTypes] /\ digestCut \subseteq Periods
  BY DEF DigestShape
<1>i. /\ \A i \in DOMAIN digests : digests[i].read <= version /\ digests[i].after < i
      /\ \A c \in DigestCalls : digestCalls[c] # NoDigest =>
           digestCalls[c].read <= version /\ digestCalls[c].after <= Len(digests)
      /\ \A i, j \in DOMAIN digests : digests[i].period = digests[j].period /\ i <= digests[j].after =>
           digests[i].stale /\ digests[i].read <= digests[j].read
  BY DEF DigestInv
<1>k. \A c \in DigestCalls, m \in DOMAIN digests : \A call : call = digestCalls[c] => CallKnows(call, m)
  BY DEF DigestInv
<1>s. \A p \in Periods : Shows(p)
  BY DEF DigestInv
<1>d. /\ DOMAIN digests = 1..Len(digests) /\ Len(digests) \in Nat
      /\ \A i \in DOMAIN digests : /\ digests[i] \in DigestRows /\ digests[i].read \in Nat
                                   /\ digests[i].period \in Periods /\ digests[i].after \in Nat
  <2>1. DOMAIN digests = 1..Len(digests) /\ Len(digests) \in Nat
    BY <1>0, LenProperties
  <2>2. \A i \in DOMAIN digests : digests[i] \in DigestRows
    BY <1>0, <2>1, ElementOfSeq
  <2>. QED
    BY <2>1, <2>2 DEF DigestRows
<1>n. NoDigest \in DigestCallTypes /\ NoDigest.pc = "none"
  BY DEF DigestCallTypes, NoDigest
<1>t. \A call \in DigestCallTypes : call # NoDigest \/ call.pc # "none" =>
        /\ call \in [pc : {"mark", "insert"}, period : Periods, read : Nat, after : Nat]
        /\ call # NoDigest /\ call.period \in Periods /\ call.read \in Nat /\ call.after \in Nat
  BY <1>n DEF DigestCallTypes
<1>1. CASE TasksChange
  <2>1. version' = version + 1 /\ UNCHANGED <<digests, digestCalls, digestCut>>
    BY <1>1 DEF TasksChange
  <2>2. DigestShape'
    BY <1>0, <2>1 DEF DigestShape
  <2>3. \A i \in DOMAIN digests' : digests'[i].read <= version' /\ digests'[i].after < i
    BY <1>0, <1>d, <1>i, <2>1
  <2>4. \A c \in DigestCalls : digestCalls'[c] # NoDigest =>
          digestCalls'[c].read <= version' /\ digestCalls'[c].after <= Len(digests')
    BY <1>0, <1>t, <1>i, <2>1
  <2>5. /\ \A p : Shows(p)' <=> Shows(p)
        /\ \A call, m : CallKnows(call, m)' <=> CallKnows(call, m)
    BY <2>1 DEF Shows, NewestIs, DigestsOf, CallKnows
  <2>. QED
    BY <1>i, <1>k, <1>s, <2>1, <2>2, <2>3, <2>4, <2>5 DEF DigestInv
\* A step of one call that leaves the digests.
<1>a. ASSUME NEW c \in DigestCalls, NEW call \in DigestCallTypes,
             digestCalls' = [digestCalls EXCEPT ![c] = call], UNCHANGED <<version, digests>>,
             digestCut \subseteq digestCut', digestCut' \subseteq Periods,
             call # NoDigest => call.read <= version /\ call.after <= Len(digests),
             \A m \in DOMAIN digests : CallKnows(call, m),
             digestCalls[c].pc = "insert" => digestCalls[c].period \in digestCut'
      PROVE  DigestShape' /\ DigestInv'
  <2>1. \A d \in DigestCalls : digestCalls'[d] = IF d = c THEN call ELSE digestCalls[d]
    BY <1>0, <1>a
  <2>2. DigestShape'
    BY <1>0, <1>a DEF DigestShape
  <2>3. \A d \in DigestCalls : digestCalls'[d] # NoDigest =>
          digestCalls'[d].read <= version' /\ digestCalls'[d].after <= Len(digests')
    BY <1>a, <1>i, <2>1
  <2>4. \A x, m : CallKnows(x, m)' <=> CallKnows(x, m)
    BY <1>a DEF CallKnows
  <2>5. ASSUME NEW d \in DigestCalls, NEW m \in DOMAIN digests', NEW x, x = digestCalls'[d]
        PROVE  CallKnows(x, m)'
    BY <1>a, <1>k, <2>1, <2>4, <2>5
  <2>6. ASSUME NEW p \in Periods PROVE Shows(p)'
    <3>1. /\ DigestsOf(p)' = DigestsOf(p) /\ \A m : NewestIs(m, p) => NewestIs(m, p)'
      BY <1>a DEF DigestsOf, NewestIs
    <3>2. CASE \E d \in DigestCalls : digestCalls[d].pc = "insert" /\ digestCalls[d].period = p
      <4>1. PICK d \in DigestCalls : digestCalls[d].pc = "insert" /\ digestCalls[d].period = p
        BY <3>2
      <4>2. CASE d = c
        BY <1>a, <4>1, <4>2 DEF Shows
      <4>3. CASE d # c
        BY <2>1, <4>1, <4>3 DEF Shows
      <4>. QED
        BY <4>2, <4>3
    <3>. QED
      BY <1>a, <1>s, <3>1, <3>2 DEF Shows
  <2>. QED
    BY <1>a, <1>i, <2>2, <2>3, <2>5, <2>6 DEF DigestInv
<1>2. ASSUME NEW c \in DigestCalls, NEW p \in Periods, BuildDraft(c, p)
      PROVE  DigestShape' /\ DigestInv'
  <2>. SUFFICES ASSUME NEW CONSTANT read, read = version, NEW CONSTANT after, after = Len(digests),
                       NEW CONSTANT call, call = [pc |-> "mark", period |-> p, read |-> read, after |-> after]
                PROVE  DigestShape' /\ DigestInv'
    OBVIOUS
  <2>1. /\ digestCalls[c] = NoDigest /\ digestCalls' = [digestCalls EXCEPT ![c] = call]
        /\ UNCHANGED <<version, digests, digestCut>>
    BY <1>2 DEF BuildDraft, DigestGo
  <2>2. /\ call \in DigestCallTypes /\ call.pc = "mark" /\ call.read = read /\ call.after = after
    BY <1>0, <1>d, <1>n DEF DigestCallTypes
  <2>3. \A m \in DOMAIN digests : CallKnows(call, m)
    BY <1>i, <2>2 DEF CallKnows
  <2>4. call.read <= version /\ call.after <= Len(digests)
    BY <1>0, <1>d, <2>2
  <2>. QED
    BY <1>0, <1>a, <1>n, <2>1, <2>2, <2>3, <2>4
<1>3. ASSUME NEW c \in DigestCalls, MarkStale(c)
      PROVE  DigestShape' /\ DigestInv'
  <2>. SUFFICES ASSUME NEW CONSTANT old, old = digestCalls[c], NEW CONSTANT p, p = old.period,
                       NEW CONSTANT call, call = [old EXCEPT !.pc = "insert"]
                PROVE  DigestShape' /\ DigestInv'
    OBVIOUS
  <2>1. /\ old.pc = "mark" /\ digestCalls' = [digestCalls EXCEPT ![c] = call]
        /\ digests' = [i \in DOMAIN digests |->
             IF digests[i].period = p THEN [digests[i] EXCEPT !.stale = TRUE] ELSE digests[i]]
        /\ UNCHANGED <<version, digestCut>>
    BY <1>3 DEF MarkStale, DigestAt, DigestGo
  <2>2. /\ old \in [pc : {"mark", "insert"}, period : Periods, read : Nat, after : Nat] /\ old # NoDigest
        /\ p \in Periods
    BY <1>0, <1>t, <2>1
  <2>3. /\ call \in DigestCallTypes /\ call.pc = "insert" /\ call.period = p /\ call.read = old.read
        /\ call.after = old.after /\ call # NoDigest
    BY <1>n, <2>2 DEF DigestCallTypes
  <2>4. \A d \in DigestCalls : digestCalls'[d] = IF d = c THEN call ELSE digestCalls[d]
    BY <1>0, <2>1
  <2>5. ASSUME NEW i \in DOMAIN digests
        PROVE  /\ digests'[i] \in DigestRows /\ digests'[i].period = digests[i].period
               /\ digests'[i].read = digests[i].read /\ digests'[i].after = digests[i].after
               /\ digests[i].period = p \/ digests[i].stale => digests'[i].stale
               /\ digests[i].period # p => digests'[i] = digests[i]
    <3>1. digests[i] \in DigestRows
      BY <1>d
    <3>2. CASE digests[i].period = p
      <4>1. digests'[i] = [digests[i] EXCEPT !.stale = TRUE]
        BY <2>1, <3>2
      <4>. QED
        BY <3>1, <3>2, <4>1 DEF DigestRows
    <3>3. CASE digests[i].period # p
      <4>1. digests'[i] = digests[i]
        BY <2>1, <3>3
      <4>. QED
        BY <3>1, <3>3, <4>1
    <3>. QED
      BY <3>2, <3>3
  <2>6. DOMAIN digests' = DOMAIN digests
    BY <2>1
  <2>7. digests' \in Seq(DigestRows) /\ Len(digests') = Len(digests)
    <3>1. digests' = [i \in 1..Len(digests) |-> digests'[i]] /\ \A i \in 1..Len(digests) : digests'[i] \in DigestRows
      BY <1>d, <2>1, <2>5
    <3>2. digests' \in Seq(DigestRows)
      BY <1>d, <3>1, IsASeq
    <3>. QED
      BY <1>d, <2>6, <3>2, LenProperties
  <2>8. DigestShape'
    BY <1>0, <2>1, <2>3, <2>7 DEF DigestShape
  <2>9. \A i \in DOMAIN digests' : digests'[i].read <= version' /\ digests'[i].after < i
    BY <1>i, <2>1, <2>5, <2>6
  <2>10. \A d \in DigestCalls : digestCalls'[d] # NoDigest =>
           digestCalls'[d].read <= version' /\ digestCalls'[d].after <= Len(digests')
    BY <1>i, <2>1, <2>2, <2>3, <2>4, <2>7
  <2>11. ASSUME NEW d \in DigestCalls, NEW m \in DOMAIN digests', NEW x, x = digestCalls'[d]
         PROVE  CallKnows(x, m)'
    <3>1. m \in DOMAIN digests
      BY <2>6, <2>11
    <3>2. CASE d = c
      <4>1. x = call /\ CallKnows(old, m)
        BY <1>k, <2>4, <2>11, <3>1, <3>2
      <4>. QED
        BY <2>2, <2>3, <2>5, <3>1, <4>1 DEF CallKnows
    <3>3. CASE d # c
      <4>1. CallKnows(x, m)
        BY <1>k, <2>4, <2>11, <3>1, <3>3
      <4>. QED
        BY <2>5, <3>1, <4>1 DEF CallKnows
    <3>. QED
      BY <3>2, <3>3
  <2>12. \A i, j \in DOMAIN digests' : digests'[i].period = digests'[j].period /\ i <= digests'[j].after =>
           digests'[i].stale /\ digests'[i].read <= digests'[j].read
    BY <1>i, <2>5, <2>6
  <2>13. ASSUME NEW q \in Periods PROVE Shows(q)'
    <3>1. CASE q = p
      <4>1. digestCalls'[c].pc = "insert" /\ digestCalls'[c].period = q
        BY <2>3, <2>4, <3>1
      <4>. QED
        BY <4>1 DEF Shows
    <3>2. CASE q # p
      <4>1. DigestsOf(q)' = DigestsOf(q)
        BY <2>5, <2>6 DEF DigestsOf
      <4>2. \A m : NewestIs(m, q) => NewestIs(m, q)'
        BY <2>5, <3>2, <4>1 DEF NewestIs, DigestsOf
      <4>3. \A d \in DigestCalls : digestCalls[d].pc = "insert" => digestCalls'[d] = digestCalls[d]
        BY <2>1, <2>4
      <4>. QED
        BY <1>s, <2>1, <4>1, <4>2, <4>3 DEF Shows
    <3>. QED
      BY <3>1, <3>2
  <2>. QED
    BY <2>8, <2>9, <2>10, <2>11, <2>12, <2>13 DEF DigestInv
<1>4. ASSUME NEW c \in DigestCalls, InsertDigest(c)
      PROVE  DigestShape' /\ DigestInv'
  <2>. SUFFICES ASSUME NEW CONSTANT old, old = digestCalls[c], NEW CONSTANT p, p = old.period,
                       NEW CONSTANT row,
                       row = [period |-> p, read |-> old.read, after |-> old.after, stale |-> FALSE],
                       NEW CONSTANT n, n = Len(digests) + 1
                PROVE  DigestShape' /\ DigestInv'
    OBVIOUS
  <2>1. /\ old.pc = "insert" /\ digests' = Append(digests, row)
        /\ digestCut' = digestCut \ {p} /\ digestCalls' = [digestCalls EXCEPT ![c] = NoDigest]
        /\ UNCHANGED version
    BY <1>4 DEF InsertDigest, DigestAt, DigestGo
  <2>2. /\ old \in [pc : {"mark", "insert"}, period : Periods, read : Nat, after : Nat] /\ old # NoDigest
        /\ p \in Periods /\ old.read \in Nat /\ old.after \in Nat
        /\ old.read <= version /\ old.after <= Len(digests)
    BY <1>0, <1>i, <1>t, <2>1
  <2>3. /\ row \in DigestRows /\ row.period = p /\ row.read = old.read /\ row.after = old.after
        /\ ~row.stale /\ n \in Nat
    BY <1>d, <2>2 DEF DigestRows
  <2>4. /\ digests' \in Seq(DigestRows) /\ DOMAIN digests' = 1..n /\ Len(digests') = n
        /\ \A i \in DOMAIN digests : digests'[i] = digests[i]
        /\ digests'[n] = row
    BY <1>0, <1>d, <2>1, <2>3, AppendProperties, LenProperties
  <2>5. /\ \A i : i \in DOMAIN digests' <=> i \in DOMAIN digests \/ i = n
        /\ \A i \in DOMAIN digests : i < n
    BY <1>d, <2>3, <2>4
  <2>6. \A d \in DigestCalls : digestCalls'[d] = IF d = c THEN NoDigest ELSE digestCalls[d]
    BY <1>0, <2>1
  <2>7. DigestShape'
    BY <1>0, <1>n, <2>1, <2>4 DEF DigestShape
  <2>8. \A i \in DOMAIN digests' : digests'[i].read <= version' /\ digests'[i].after < i
    <3>1. row.read <= version' /\ row.after < n
      BY <1>d, <2>1, <2>2, <2>3
    <3>. QED
      BY <1>i, <2>1, <2>4, <2>5, <3>1
  <2>9. \A d \in DigestCalls : digestCalls'[d] # NoDigest =>
          digestCalls'[d].read <= version' /\ digestCalls'[d].after <= Len(digests')
    <3>1. ASSUME NEW d \in DigestCalls, digestCalls[d] # NoDigest PROVE digestCalls[d].after <= n
      BY <1>0, <1>d, <1>i, <1>t, <3>1
    <3>. QED
      BY <1>i, <2>1, <2>4, <2>6, <3>1
  <2>10. ASSUME NEW d \in DigestCalls, NEW m \in DOMAIN digests', NEW x, x = digestCalls'[d]
         PROVE  CallKnows(x, m)'
    <3>1. CASE d = c
      BY <2>6, <2>10, <3>1 DEF CallKnows
    <3>2. CASE d # c /\ m \in DOMAIN digests
      <4>1. CallKnows(x, m)
        BY <1>k, <2>6, <2>10, <3>2
      <4>. QED
        BY <2>4, <3>2, <4>1 DEF CallKnows
    <3>3. CASE d # c /\ m = n
      <4>1. x # NoDigest => ~(m <= x.after)
        BY <1>0, <1>d, <1>i, <1>t, <2>6, <2>10, <3>3
      <4>. QED
        BY <4>1 DEF CallKnows
    <3>. QED
      BY <2>5, <2>10, <3>1, <3>2, <3>3
  <2>11. ASSUME NEW i \in DOMAIN digests', NEW k \in DOMAIN digests',
                digests'[i].period = digests'[k].period, i <= digests'[k].after
         PROVE  digests'[i].stale /\ digests'[i].read <= digests'[k].read
    <3>1. CASE i = n
      <4>1. digests'[k].after < k /\ k <= n /\ k \in Nat /\ digests'[k].after \in Nat
        BY <1>d, <2>2, <2>3, <2>4, <2>5, <2>8
      <4>. QED
        BY <2>3, <2>11, <3>1, <4>1
    <3>2. CASE i \in DOMAIN digests /\ k \in DOMAIN digests
      BY <1>i, <2>4, <2>11, <3>2
    <3>3. CASE i \in DOMAIN digests /\ k = n
      <4>1. CallKnows(old, i) /\ digests'[i] = digests[i] /\ digests'[k] = row
        BY <1>k, <2>4, <3>3
      <4>. QED
        BY <2>1, <2>2, <2>3, <2>11, <4>1 DEF CallKnows
    <3>. QED
      BY <2>5, <2>11, <3>1, <3>2, <3>3
  <2>12. ASSUME NEW q \in Periods PROVE Shows(q)'
    <3>1. CASE q = p
      <4>1. n \in DigestsOf(q)' /\ ~digests'[n].stale
        BY <2>3, <2>4, <2>5, <3>1 DEF DigestsOf
      <4>2. \A i \in DigestsOf(q)' : i <= n
        BY <1>d, <2>3, <2>5 DEF DigestsOf
      <4>3. NewestIs(n, q)'
        BY <4>1, <4>2 DEF NewestIs
      <4>. QED
        BY <4>1, <4>3 DEF Shows
    <3>2. CASE q # p
      <4>1. DigestsOf(q)' = DigestsOf(q) /\ \A i \in DigestsOf(q) : digests'[i] = digests[i]
        BY <2>3, <2>4, <2>5, <3>2 DEF DigestsOf
      <4>2. \A m : NewestIs(m, q) => NewestIs(m, q)'
        BY <4>1 DEF NewestIs
      <4>3. \A d \in DigestCalls : digestCalls[d].period = q => digestCalls'[d] = digestCalls[d]
        BY <2>6, <3>2
      <4>4. q \in digestCut => q \in digestCut'
        BY <2>1, <3>2
      <4>. QED
        BY <1>s, <4>1, <4>2, <4>3, <4>4 DEF Shows
    <3>. QED
      BY <3>1, <3>2
  <2>. QED
    BY <2>7, <2>8, <2>9, <2>10, <2>11, <2>12 DEF DigestInv
<1>5. ASSUME NEW c \in DigestCalls, DigestFails(c)
      PROVE  DigestShape' /\ DigestInv'
  <2>1. /\ digestCalls[c] # NoDigest /\ digestCalls' = [digestCalls EXCEPT ![c] = NoDigest]
        /\ digestCut' = IF digestCalls[c].pc = "insert" THEN digestCut \cup {digestCalls[c].period} ELSE digestCut
        /\ UNCHANGED <<version, digests>>
    BY <1>5 DEF DigestFails, DigestAt, DigestGo
  <2>2. digestCalls[c].period \in Periods
    BY <1>0, <1>t, <2>1
  <2>3. \A m \in DOMAIN digests : CallKnows(NoDigest, m)
    BY DEF CallKnows
  <2>. QED
    BY <1>0, <1>a, <1>n, <2>1, <2>2, <2>3
<1>6. CASE UNCHANGED digestVars
  <2>1. UNCHANGED <<version, digests, digestCalls, digestCut>>
    BY <1>6 DEF digestVars
  <2>2. /\ \A p : Shows(p)' <=> Shows(p)
        /\ \A call, m : CallKnows(call, m)' <=> CallKnows(call, m)
    BY <2>1 DEF Shows, NewestIs, DigestsOf, CallKnows
  <2>. QED
    BY <1>0, <1>i, <1>k, <1>s, <2>1, <2>2 DEF DigestShape, DigestInv
<1>. QED
  BY <1>1, <1>2, <1>3, <1>4, <1>5, <1>6 DEF DigestNext

LEMMA DigestBegins == DigestInit => DigestShape /\ DigestInv
<1>. SUFFICES ASSUME DigestInit PROVE DigestShape /\ DigestInv
  OBVIOUS
<1>1. /\ version = 0 /\ digests = <<>> /\ digestCalls = [c \in DigestCalls |-> NoDigest]
      /\ digestCut = {}
  BY DEF DigestInit
<1>2. DigestShape
  BY <1>1, EmptySeq DEF DigestShape, DigestCallTypes
<1>3. DOMAIN digests = {}
  BY <1>1
<1>4. \A p : Shows(p)
  BY <1>3 DEF Shows, DigestsOf
<1>. QED
  BY <1>1, <1>2, <1>3, <1>4 DEF DigestInv

LEMMA DigestCorrect == DigestSpec => []DigestIsCurrent
<1>1. DigestShape /\ DigestInv => DigestIsCurrent
  <2>. SUFFICES ASSUME DigestShape, DigestInv, NEW p \in Periods
                PROVE  /\ \/ DigestsOf(p) = {} \/ p \in digestCut
                          \/ \E c \in Making(p) : digestCalls[c].pc = "insert"
                          \/ Latest(p) \in DigestsOf(p) /\ \A i \in DigestsOf(p) : i <= Latest(p)
                       /\ \A i, j \in DigestsOf(p) : i <= digests[j].after =>
                            digests[i].stale /\ digests[i].read <= digests[j].read
    BY DEF DigestIsCurrent, DigestsOf, DigestAt
  <2>1. \A i, j \in DigestsOf(p) : i <= digests[j].after =>
          digests[i].stale /\ digests[i].read <= digests[j].read
    BY DEF DigestInv, DigestsOf
  <2>2. CASE \E c \in DigestCalls : digestCalls[c].pc = "insert" /\ digestCalls[c].period = p
    <3>1. NoDigest.pc # "insert"
      BY DEF NoDigest
    <3>2. \E c \in Making(p) : digestCalls[c].pc = "insert"
      BY <2>2, <3>1 DEF Making
    <3>. QED
      BY <2>1, <3>2
  <2>3. CASE \E m \in DigestsOf(p) : NewestIs(m, p)
    <3>1. PICK m \in DigestsOf(p) : NewestIs(m, p)
      BY <2>3
    <3>. DEFINE current == {i \in DOMAIN digests : digests[i].period = p /\ ~digests[i].stale}
    <3>2. m \in current /\ \A i \in current : i <= m /\ i \in Nat
      BY <3>1, LenProperties DEF NewestIs, DigestsOf, DigestShape
    <3>3. \A i \in current : (\A j \in current : j <= i) => i = m
      BY <3>2
    <3>4. (CHOOSE i \in current : \A j \in current : j <= i) = m
      BY <3>2, <3>3
    <3>5. Latest(p) = m
      BY <3>2, <3>4 DEF Latest
    <3>. QED
      BY <2>1, <3>1, <3>5 DEF NewestIs
  <2>4. Shows(p)
    BY DEF DigestInv
  <2>. QED
    BY <2>1, <2>2, <2>3, <2>4 DEF Shows
<1>. QED
  BY <1>1, DigestBegins, DigestStep, PTL DEF DigestSpec

\* No digest has read more changes of the tasks than there were.
LEMMA DigestsTyped == DigestSpec => []DigestTypeOK
<1>1. DigestInit => version <= MaxVersion
  BY DigestAssumption DEF DigestInit
<1>2. DigestShape /\ version <= MaxVersion /\ [DigestNext]_digestVars => (version <= MaxVersion)'
  <2>. SUFFICES ASSUME DigestShape, version <= MaxVersion, [DigestNext]_digestVars PROVE version' <= MaxVersion
    OBVIOUS
  <2>1. version' = version \/ (version < MaxVersion /\ version' = version + 1)
    BY DEF DigestNext, digestVars, TasksChange, BuildDraft, MarkStale, InsertDigest, DigestFails
  <2>. QED
    BY <2>1, DigestAssumption DEF DigestShape
<1>3. DigestShape /\ DigestInv /\ version <= MaxVersion => DigestTypeOK
  <2>. DEFINE rows == [period : Periods, read : 0..MaxVersion, after : Nat, stale : BOOLEAN]
  <2>. SUFFICES ASSUME DigestShape, DigestInv, version <= MaxVersion PROVE DigestTypeOK
    OBVIOUS
  <2>1. version \in 0..MaxVersion
    BY DigestAssumption DEF DigestShape
  <2>2. digests \in Seq(rows)
    <3>1. \A i \in DOMAIN digests : digests[i] \in DigestRows
      BY ElementOfSeq, LenProperties DEF DigestShape
    <3>2. \A i \in DOMAIN digests : digests[i].read \in 0..MaxVersion
      BY <3>1, <2>1, DigestAssumption DEF DigestRows, DigestInv
    <3>3. \A i \in DOMAIN digests : digests[i] \in rows
      BY <3>1, <3>2 DEF DigestRows
    <3>. HIDE DEF rows
    <3>. QED
      BY <3>3, Narrowed DEF DigestShape
  <2>3. \A c \in DigestCalls : digestCalls[c] \in
          {NoDigest} \cup [pc : {"mark", "insert"}, period : Periods, read : 0..MaxVersion, after : Nat]
    BY <2>1, DigestAssumption DEF DigestShape, DigestInv, DigestCallTypes
  <2>. QED
    BY <2>1, <2>2, <2>3 DEF DigestTypeOK, DigestShape
<1>. QED
  BY <1>1, <1>2, <1>3, DigestBegins, DigestStep, PTL DEF DigestSpec

-----------------------------------------------------------------------------
(* Report delivery: whoever marks a report as emitted has it, and shows it.     *)

DeliveryInv ==
    /\ DeliveryTypeOK
    /\ \A d \in Deliverers : delivery[d] \in {"write", "add", "record"} => report # "none"
    /\ \A d \in Deliverers : delivery[d] = "record" => emitted
    /\ shown > 0 => report # "none"
    /\ emitted => shown > 0 \/ \E d \in Deliverers : delivery[d] = "record"
    /\ delivery[Watcher] = "done" => emitted \/ ~writable \/ overdue

LEMMA DeliveryStep == DeliveryInv /\ [DeliveryNext]_deliveryVars => DeliveryInv'
<1>. SUFFICES ASSUME DeliveryInv, [DeliveryNext]_deliveryVars PROVE DeliveryInv'
  OBVIOUS
<1>. USE DEF DeliveryInv, DeliveryTypeOK, DeliveryGoes, NotEmitted
<1>w. Watcher \in Deliverers
  BY DEF Deliverers
<1>1. CASE WatchReport
  BY <1>1, <1>w DEF WatchReport
<1>2. CASE WatcherGivesUp
  BY <1>2, <1>w DEF WatcherGivesUp
<1>3. CASE ReportStored
  BY <1>3 DEF ReportStored
<1>4. CASE SessionMovesOn
  BY <1>4 DEF SessionMovesOn
<1>5. CASE DeadlinePasses
  BY <1>5 DEF DeadlinePasses
<1>6. ASSUME NEW h \in Handlers, Notified(h) PROVE DeliveryInv'
  BY <1>6, <1>w DEF Notified, Deliverers
<1>7. ASSUME NEW d \in Deliverers, EnterDelivery(d) PROVE DeliveryInv'
  BY <1>7, <1>w DEF EnterDelivery
<1>8. ASSUME NEW d \in Deliverers, CheckEmitted(d) PROVE DeliveryInv'
  BY <1>8, <1>w DEF CheckEmitted
<1>9. ASSUME NEW d \in Deliverers, SelectReport(d) PROVE DeliveryInv'
  BY <1>9, <1>w DEF SelectReport
<1>10. ASSUME NEW d \in Deliverers, CheckWrite(d) PROVE DeliveryInv'
  BY <1>10, <1>w DEF CheckWrite
<1>11. ASSUME NEW d \in Deliverers, MarkEmitted(d) PROVE DeliveryInv'
  BY <1>11, <1>w DEF MarkEmitted
<1>12. ASSUME NEW d \in Deliverers, ShowReport(d) PROVE DeliveryInv'
  BY <1>12, <1>w DEF ShowReport
<1>13. CASE UNCHANGED deliveryVars
  BY <1>13 DEF deliveryVars
<1>14. ASSUME NEW d \in Deliverers, DeliveryFails(d) PROVE DeliveryInv'
  <2>1. /\ delivery[d] \in {"none", "enter", "select", "write"}
        /\ UNCHANGED <<report, writable, overdue, shown>>
    BY <1>14 DEF DeliveryFails
  <2>2. PICK gone \in {{d}, Deliverers} :
          /\ delivery' = [x \in Deliverers |-> IF x \in gone THEN "failed" ELSE delivery[x]]
          /\ emitted' = (emitted /\ gone = {d})
    BY <1>14 DEF DeliveryFails
  <2>3. \A x \in Deliverers : delivery'[x] = "failed" \/ delivery'[x] = delivery[x]
    BY <2>2
  <2>4. CASE gone = {d}
    <3>1. /\ emitted' = emitted /\ \A x \in Deliverers : x # d => delivery'[x] = delivery[x]
      BY <2>2, <2>4
    <3>2. delivery'[Watcher] = "done" => delivery[Watcher] = "done"
      BY <2>3, <1>w
    <3>3. \A x \in Deliverers : delivery[x] = "record" => x # d
      BY <2>1
    <3>4. \A x \in Deliverers : delivery'[x] \in {"write", "add", "record"} => delivery[x] = delivery'[x]
      BY <2>3
    <3>5. DeliveryTypeOK'
      BY <2>1, <2>2, <3>1
    <3>. QED
      BY <2>1, <3>1, <3>2, <3>3, <3>4, <3>5
  <2>5. CASE gone = Deliverers /\ gone # {d}
    <3>1. emitted' = FALSE /\ \A x \in Deliverers : delivery'[x] = "failed"
      BY <2>2, <2>5
    <3>2. DeliveryTypeOK'
      BY <2>1, <2>2, <2>5
    <3>. QED
      BY <2>1, <3>1, <3>2, <1>w
  <2>. QED
    BY <2>2, <2>4, <2>5
<1>. QED
  BY <1>1, <1>2, <1>3, <1>4, <1>5, <1>6, <1>7, <1>8, <1>9, <1>10, <1>11, <1>12, <1>13, <1>14
     DEF DeliveryNext

LEMMA DeliveryBegins == DeliveryInit => DeliveryInv
<1>. SUFFICES ASSUME DeliveryInit PROVE DeliveryInv
  OBVIOUS
<1>1. delivery \in [Deliverers -> {"none"}] /\ Watcher \in Deliverers
  BY DEF DeliveryInit, Deliverers
<1>2. \A d \in Deliverers : delivery[d] = "none"
  BY <1>1
<1>3. DeliveryTypeOK
  BY <1>1 DEF DeliveryInit, DeliveryTypeOK
<1>4. ~emitted /\ ~(shown > 0)
  BY DEF DeliveryInit
<1>. QED
  BY <1>1, <1>2, <1>3, <1>4 DEF DeliveryInv

LEMMA DeliveryCorrect == DeliveryInit /\ [][DeliveryNext]_deliveryVars => []ReportsAreShown
<1>1. DeliveryInv => ReportsAreShown
  BY DEF DeliveryInv, ReportsAreShown
<1>. QED
  BY <1>1, DeliveryBegins, DeliveryStep, PTL

LEMMA DeliveriesTyped == DeliveryInit /\ [][DeliveryNext]_deliveryVars => []DeliveryTypeOK
<1>1. DeliveryInv => DeliveryTypeOK
  BY DEF DeliveryInv
<1>. QED
  BY <1>1, DeliveryBegins, DeliveryStep, PTL

-----------------------------------------------------------------------------
(* Notification stream: whatever cursor a tick has read with, the session's rows *)
(* before one of those it read are among them, were sent, or are outrun.        *)

Notifications == [at : Nat, own : BOOLEAN, committed : BOOLEAN]
ReadTypes == {NotReading} \cup [pc : {"read"}, rows : SUBSET Nat]

StreamShape ==
    /\ notifications \in Seq(Notifications) /\ now \in Nat /\ since \in Nat
    /\ reads \in [Ticks -> ReadTypes] /\ sent \subseteq Rows /\ outrun \subseteq Rows

ReadFrom(R) == R \subseteq Rows
    /\ \A i \in R, j \in Rows : j < i /\ notifications[j].own => j \in R \/ j \in sent \cup outrun

StreamInv ==
    /\ since <= now
    /\ \A i \in Rows : notifications[i].at <= now
    /\ \A i, j \in Rows : i <= j => notifications[i].at <= notifications[j].at
    /\ \A t \in Ticks : reads[t] # NotReading => \A R : R = reads[t].rows => ReadFrom(R)
    /\ StreamPassesNothing

LEMMA RowTypes ==
  notifications \in Seq(Notifications) =>
    /\ Rows = 1..Len(notifications) /\ Len(notifications) \in Nat
    /\ \A i \in Rows : /\ notifications[i].at \in Nat /\ notifications[i].own \in BOOLEAN
                      /\ notifications[i].committed \in BOOLEAN
<1>. SUFFICES ASSUME notifications \in Seq(Notifications)
              PROVE  /\ Rows = 1..Len(notifications) /\ Len(notifications) \in Nat
                     /\ \A i \in Rows : /\ notifications[i].at \in Nat /\ notifications[i].own \in BOOLEAN
                                       /\ notifications[i].committed \in BOOLEAN
  OBVIOUS
<1>1. Rows = 1..Len(notifications) /\ Len(notifications) \in Nat
  BY LenProperties DEF Rows
<1>2. \A i \in Rows : notifications[i] \in Notifications
  BY <1>1, ElementOfSeq
<1>. QED
  BY <1>1, <1>2 DEF Notifications

\* A read goes up to its last row without a gap.
LEMMA AfterIsPrefix ==
    ASSUME notifications \in Seq(Notifications), NEW c \in Nat,
           NEW i \in After(c), NEW j \in Rows, j < i,
           notifications[j].committed, notifications[j].at >= c
    PROVE  j \in After(c)
<1>. DEFINE after == {k \in Rows : notifications[k].committed /\ notifications[k].at >= c}
            upTo(k) == {l \in after : l < k}
<1>1. Rows = 1..Len(notifications) /\ Len(notifications) \in Nat
  BY RowTypes
<1>2. i \in after /\ Cardinality(upTo(i)) < StreamLimit /\ j \in after
  BY DEF After
<1>3. upTo(j) \subseteq upTo(i)
  BY <1>1, <1>2
<1>4. IsFiniteSet(upTo(i)) /\ Cardinality(upTo(i)) \in Nat /\ Cardinality(upTo(j)) \in Nat
      /\ Cardinality(upTo(j)) <= Cardinality(upTo(i))
  <2>1. IsFiniteSet(1..Len(notifications))
    BY <1>1, FS_Interval
  <2>2. IsFiniteSet(upTo(i)) /\ IsFiniteSet(upTo(j))
    BY <1>1, <2>1, FS_Subset
  <2>. QED
    BY <1>3, <2>2, FS_Subset, FS_CardinalityType
<1>5. Cardinality(upTo(j)) < StreamLimit
  BY <1>2, <1>4, StreamAssumption
<1>. QED
  BY <1>2, <1>5 DEF After

LEMMA StreamStep == StreamShape /\ StreamInv /\ [StreamNext]_streamVars => StreamShape' /\ StreamInv'
<1>. SUFFICES ASSUME StreamShape, StreamInv, [StreamNext]_streamVars PROVE StreamShape' /\ StreamInv'
  OBVIOUS
<1>0. /\ notifications \in Seq(Notifications) /\ now \in Nat /\ since \in Nat /\ since <= now
      /\ reads \in [Ticks -> ReadTypes] /\ sent \subseteq Rows /\ outrun \subseteq Rows
      /\ \A i \in Rows : notifications[i].at <= now
      /\ \A i, j \in Rows : i <= j => notifications[i].at <= notifications[j].at
      /\ \A t \in Ticks : reads[t] # NotReading => \A R : R = reads[t].rows => ReadFrom(R)
      /\ \A i \in Rows : notifications[i].own /\ notifications[i].at < since => i \in sent \cup outrun
  BY DEF StreamShape, StreamInv, StreamPassesNothing
<1>r. /\ Rows = 1..Len(notifications) /\ Len(notifications) \in Nat
      /\ \A i \in Rows : notifications[i].at \in Nat /\ notifications[i].own \in BOOLEAN
  BY <1>0, RowTypes
<1>n. NotReading \in ReadTypes /\ \A R : [pc |-> "read", rows |-> R] # NotReading
  BY DEF ReadTypes, NotReading
\* A tick ends, and more is sent: the other reads stand.
<1>e. ASSUME NEW t \in Ticks, reads' = [reads EXCEPT ![t] = NotReading],
             UNCHANGED <<notifications, now, outrun>>, sent \subseteq sent'
      PROVE  /\ reads' \in [Ticks -> ReadTypes] /\ Rows' = Rows
             /\ \A u \in Ticks : reads'[u] # NotReading => \A R : R = reads'[u].rows => ReadFrom(R)'
  <2>1. Rows' = Rows /\ reads' \in [Ticks -> ReadTypes]
    BY <1>e, <1>0, <1>n DEF Rows
  <2>2. ASSUME NEW u \in Ticks, reads'[u] # NotReading, NEW R, R = reads'[u].rows
        PROVE  ReadFrom(R)'
    <3>1. ReadFrom(R)
      BY <1>e, <1>0, <2>2
    <3>. QED
      BY <3>1, <1>e, <2>1 DEF ReadFrom
  <2>. QED
    BY <2>1, <2>2
<1>1. ASSUME NEW own \in BOOLEAN, Notify(own) PROVE StreamShape' /\ StreamInv'
  <2>. DEFINE row == [at |-> now, own |-> own, committed |-> FALSE]
  <2>1. notifications' = Append(notifications, row) /\ UNCHANGED <<now, since, reads, sent, outrun>>
    BY <1>1 DEF Notify
  <2>2. row \in Notifications
    BY <1>0 DEF Notifications
  <2>3. /\ notifications' \in Seq(Notifications) /\ Len(notifications') = Len(notifications) + 1
        /\ \A i \in 1..Len(notifications) : notifications'[i] = notifications[i]
        /\ notifications'[Len(notifications) + 1] = row
    BY <1>0, <2>1, <2>2, AppendProperties
  <2>4. Rows' = 1..(Len(notifications) + 1)
    BY <2>3, LenProperties DEF Rows
  <2>5. /\ \A i \in Rows' : i \in Rows \/ i = Len(notifications) + 1
        /\ \A i \in Rows : i \in Rows' /\ notifications'[i] = notifications[i] /\ i < Len(notifications) + 1
        /\ Len(notifications) + 1 \notin Rows
    BY <1>r, <2>3, <2>4
  <2>6. \A i \in Rows' : notifications'[i].at <= now'
    <3>1. row.at = now /\ now <= now
      BY <1>0
    <3>. QED
      BY <3>1, <1>0, <2>1, <2>3, <2>5
  <2>7. \A i, j \in Rows' : i <= j => notifications'[i].at <= notifications'[j].at
    BY <1>0, <1>r, <2>3, <2>4, <2>5
  <2>8. ASSUME NEW t \in Ticks, reads'[t] # NotReading, NEW R, R = reads'[t].rows
        PROVE  ReadFrom(R)'
    <3>1. ReadFrom(R)
      BY <1>0, <2>1, <2>8
    <3>2. R \subseteq Rows'
      BY <3>1, <2>5 DEF ReadFrom
    <3>3. ASSUME NEW i \in R, NEW j \in Rows', j < i, notifications'[j].own PROVE j \in R \/ j \in sent' \cup outrun'
      <4>1. i \in Rows /\ j \in Rows
        BY <3>1, <3>3, <1>r, <2>4 DEF ReadFrom
      <4>. QED
        BY <4>1, <3>1, <3>3, <2>1, <2>5 DEF ReadFrom
    <3>. QED
      BY <3>2, <3>3 DEF ReadFrom
  <2>9. \A i \in Rows' : notifications'[i].own /\ notifications'[i].at < since' => i \in sent' \cup outrun'
    <3>1. ~(row.at < since)
      BY <1>0
    <3>. QED
      BY <3>1, <1>0, <2>1, <2>3, <2>5
  <2>. QED
    BY <1>0, <2>1, <2>3, <2>5, <2>6, <2>7, <2>8, <2>9 DEF StreamShape, StreamInv, StreamPassesNothing
<1>2. ASSUME TimePasses PROVE StreamShape' /\ StreamInv'
  <2>1. now' = now + 1 /\ UNCHANGED <<notifications, since, reads, sent, outrun>>
    BY <1>2 DEF TimePasses
  <2>2. Rows' = Rows
    BY <2>1 DEF Rows
  <2>3. \A R : ReadFrom(R) => ReadFrom(R)'
    BY <2>1, <2>2 DEF ReadFrom
  <2>4. since' <= now' /\ now' \in Nat /\ \A i \in Rows' : notifications'[i].at <= now'
    BY <1>0, <1>r, <2>1, <2>2
  <2>. QED
    BY <1>0, <2>1, <2>2, <2>3, <2>4 DEF StreamShape, StreamInv, StreamPassesNothing
<1>3. ASSUME NEW t \in Ticks, StartTick(t) PROVE StreamShape' /\ StreamInv'
  <2>. DEFINE read == [pc |-> "read", rows |-> After(since)]
          passed == {i \in Rows : ~notifications[i].committed /\ \E j \in After(since) : i < j}
  <2>1. /\ reads' = [reads EXCEPT ![t] = read] /\ outrun' = outrun \cup passed
        /\ UNCHANGED <<notifications, now, since, sent>>
    BY <1>3 DEF StartTick
  <2>2. Rows' = Rows /\ outrun \subseteq outrun' /\ outrun' \subseteq Rows
    BY <1>0, <2>1 DEF Rows
  <2>3. After(since) \subseteq Rows /\ Rows \subseteq Nat
    BY <1>r DEF After
  <2>4. ASSUME NEW R, R = After(since) PROVE ReadFrom(R)'
    <3>1. ASSUME NEW i \in After(since), NEW j \in Rows, j < i, notifications[j].own
          PROVE  j \in After(since) \/ j \in sent \cup outrun'
      <4>1. CASE notifications[j].at < since
        BY <4>1, <3>1, <1>0, <2>2
      <4>2. CASE notifications[j].at >= since /\ notifications[j].committed
        BY <4>2, <3>1, <1>0, AfterIsPrefix
      <4>3. CASE ~notifications[j].committed
        <5>1. j \in passed
          BY <4>3, <3>1
        <5>. QED
          BY <5>1, <2>1
      <4>. QED
        BY <4>1, <4>2, <4>3, <1>0, <1>r
    <3>. QED
      BY <3>1, <2>1, <2>2, <2>3, <2>4 DEF ReadFrom
  <2>5. \A R : ReadFrom(R) => ReadFrom(R)'
    BY <2>1, <2>2 DEF ReadFrom
  <2>6. read \in ReadTypes /\ read.rows = After(since)
    BY <2>3 DEF ReadTypes
  <2>7. reads' \in [Ticks -> ReadTypes]
    BY <1>0, <2>1, <2>6
  <2>8. ASSUME NEW u \in Ticks, reads'[u] # NotReading, NEW R, R = reads'[u].rows
        PROVE  ReadFrom(R)'
    <3>1. CASE u = t
      <4>1. R = After(since)
        BY <3>1, <1>0, <2>1, <2>6, <2>8
      <4>. QED
        BY <4>1, <2>4
    <3>2. CASE u # t
      <4>1. ReadFrom(R)
        BY <3>2, <1>0, <2>1, <2>8
      <4>. QED
        BY <4>1, <2>5
    <3>. QED
      BY <3>1, <3>2
  <2>. QED
    BY <1>0, <2>1, <2>2, <2>7, <2>8 DEF StreamShape, StreamInv, StreamPassesNothing
<1>4. ASSUME NEW t \in Ticks, SendRows(t) PROVE StreamShape' /\ StreamInv'
  <2>. DEFINE own == {i \in reads[t].rows : notifications[i].own}
              newest == CHOOSE i \in own : \A j \in own : j <= i
  <2>1. /\ reads[t] # NotReading /\ reads' = [reads EXCEPT ![t] = NotReading]
        /\ sent' = sent \cup own /\ UNCHANGED <<notifications, now, outrun>>
        /\ since' = IF own = {} THEN since ELSE notifications[newest].at
    BY <1>4 DEF SendRows
  <2>2. ReadFrom(reads[t].rows)
    BY <1>0, <2>1
  <2>3. own \subseteq Rows /\ \A j \in Rows, i \in own : j < i /\ notifications[j].own => j \in own \/ j \in sent \cup outrun
    BY <2>2 DEF ReadFrom
  <2>4. Rows' = Rows /\ sent \subseteq sent' /\ sent' \subseteq Rows'
    BY <1>0, <2>1, <2>3 DEF Rows
  <2>5. since' \in Nat /\ since' <= now
        /\ \A i \in Rows : notifications[i].own /\ notifications[i].at < since' => i \in sent' \cup outrun'
    <3>1. CASE own = {}
      BY <3>1, <1>0, <2>1
    <3>2. CASE own # {}
      <4>1. own \in SUBSET Nat /\ \A i \in own : i <= Len(notifications)
        BY <1>r, <2>3
      <4>2. \E i \in own : \A j \in own : j <= i
        BY <4>1, <3>2, <1>r, GreatestExists
      <4>3. newest \in own /\ \A j \in own : j <= newest
        BY <4>2
      <4>4. newest \in Rows /\ since' = notifications[newest].at
        BY <4>3, <2>3, <2>1, <3>2
      <4>5. \A i \in Rows : notifications[i].at < since' => i < newest
        BY <4>4, <1>0, <1>r
      <4>6. ASSUME NEW i \in Rows, notifications[i].own, notifications[i].at < since' PROVE i \in sent' \cup outrun'
        BY <4>6, <4>5, <4>3, <2>3, <2>1
      <4>. QED
        BY <4>4, <4>6, <1>0, <1>r
    <3>. QED
      BY <3>1, <3>2
  <2>6. /\ reads' \in [Ticks -> ReadTypes]
        /\ \A u \in Ticks : reads'[u] # NotReading => \A R : R = reads'[u].rows => ReadFrom(R)'
    BY <1>e, <2>1, <2>4
  <2>. QED
    BY <1>0, <2>1, <2>4, <2>5, <2>6 DEF StreamShape, StreamInv, StreamPassesNothing
<1>5. ASSUME NEW t \in Ticks, TickFails(t) PROVE StreamShape' /\ StreamInv'
  <2>1. reads' = [reads EXCEPT ![t] = NotReading] /\ UNCHANGED <<notifications, now, since, sent, outrun>>
    BY <1>5 DEF TickFails
  <2>2. /\ reads' \in [Ticks -> ReadTypes] /\ Rows' = Rows
        /\ \A u \in Ticks : reads'[u] # NotReading => \A R : R = reads'[u].rows => ReadFrom(R)'
    BY <1>e, <2>1
  <2>. QED
    BY <1>0, <2>1, <2>2 DEF StreamShape, StreamInv, StreamPassesNothing
<1>6. CASE UNCHANGED streamVars
  <2>1. Rows' = Rows /\ UNCHANGED <<notifications, now, since, reads, sent, outrun>>
    BY <1>6 DEF streamVars, Rows
  <2>2. \A R : ReadFrom(R) => ReadFrom(R)'
    BY <2>1 DEF ReadFrom
  <2>. QED
    BY <1>0, <2>1, <2>2 DEF StreamShape, StreamInv, StreamPassesNothing
<1>7. ASSUME NEW i \in Rows, CommitNotify(i) PROVE StreamShape' /\ StreamInv'
  <2>1. /\ notifications' = [notifications EXCEPT ![i].committed = TRUE]
        /\ UNCHANGED <<now, since, reads, sent, outrun>>
    BY <1>7 DEF CommitNotify
  <2>2. Rows' = Rows
    BY <1>0, <2>1 DEF Rows
  <2>3. \A j \in Rows : notifications[j] \in Notifications
    BY <1>0, <1>r, ElementOfSeq
  <2>4. [notifications[i] EXCEPT !.committed = TRUE] \in Notifications
    BY <2>3 DEF Notifications
  <2>5. notifications' \in Seq(Notifications)
    BY <1>0, <1>r, <2>1, <2>4, ExceptSeq
  <2>6. \A j \in Rows : /\ notifications'[j].at = notifications[j].at
                       /\ notifications'[j].own = notifications[j].own
    <3>1. \A j \in Rows : j # i => notifications'[j] = notifications[j]
      BY <1>0, <2>1
    <3>2. /\ notifications'[i].at = notifications[i].at
          /\ notifications'[i].own = notifications[i].own
      BY <1>0, <2>1, <2>3 DEF Notifications
    <3>. QED
      BY <3>1, <3>2
  <2>7. \A R : ReadFrom(R) => ReadFrom(R)'
    BY <2>1, <2>2, <2>6 DEF ReadFrom
  <2>. QED
    BY <1>0, <2>1, <2>2, <2>5, <2>6, <2>7 DEF StreamShape, StreamInv, StreamPassesNothing
<1>. QED
  BY <1>1, <1>2, <1>3, <1>4, <1>5, <1>6, <1>7 DEF StreamNext

LEMMA StreamBegins == StreamInit => StreamShape /\ StreamInv
<1>. SUFFICES ASSUME StreamInit PROVE StreamShape /\ StreamInv
  OBVIOUS
<1>1. notifications \in Seq(Notifications) /\ Rows = {}
  BY EmptySeq DEF StreamInit, Rows
<1>. QED
  BY <1>1 DEF StreamInit, StreamShape, StreamInv, StreamPassesNothing, ReadTypes

LEMMA StreamCorrect == StreamInit /\ [][StreamNext]_streamVars => []StreamPassesNothing
<1>1. StreamInv => StreamPassesNothing
  BY DEF StreamInv
<1>. QED
  BY <1>1, StreamBegins, StreamStep, PTL

LEMMA StreamTyped == StreamInit /\ [][StreamNext]_streamVars => []StreamTypeOK
<1>1. StreamShape /\ StreamInv => StreamTypeOK
  <2>. SUFFICES ASSUME StreamShape, StreamInv PROVE StreamTypeOK
    OBVIOUS
  <2>1. since \in 0..now
    BY DEF StreamShape, StreamInv
  <2>. QED
    BY <2>1 DEF StreamShape, StreamInv, ReadFrom, StreamTypeOK, Notifications
<1>. QED
  BY <1>1, StreamBegins, StreamStep, PTL

-----------------------------------------------------------------------------
(* Object store: a row knows where its file is, and a file of a discarded       *)
(* session is on the list of its cleanup.                                     *)

StoreObjects == [row : RowStatuses, owner : OwnerTypes]
StoreCallTypes == {NoStoreCall}
    \cup [op : {"put"}, pc : {"put", "insert"}, object : Nat]
    \cup [op : {"delete"}, pc : {"remove", "mark"}, object : Nat]
    \cup [op : CleanUps, pc : {"list", "select", "status", "clear"}, todo : SUBSET Nat]
    \cup [op : CleanUps, pc : {"remove", "mark"}, object : Nat, todo : SUBSET Nat]

StoreShape ==
    /\ objects \in Seq(StoreObjects) /\ bucket \subseteq Ids
    /\ storeCalls \in [StoreCalls -> StoreCallTypes]

\* What a call knows of its object: it has no row yet, or one that stays.
PutOK(call) == call # NoStoreCall /\ call.op = "put" =>
    /\ call.object \in Ids /\ objects[call.object].row = "none"
    /\ call.pc = "put" => call.object \notin bucket
    /\ call.pc = "insert" => call.object \in bucket
RemovalOK(call) == call # NoStoreCall /\ call.op # "put" =>
    /\ call.pc \in {"remove", "mark"} => call.object \in Ids /\ objects[call.object].row # "none"
    /\ call.pc = "mark" => call.object \notin bucket
    /\ call.pc \in {"list", "status", "clear"} => call.todo = {}
    /\ call.op \in CleanUps => call.todo \subseteq Ids /\ \A o \in call.todo : objects[o].row # "none"

\* A cleanup has still to take the object.
ToClean(call, o) == call # NoStoreCall /\ call.op \in CleanUps
    /\ (call.pc = "list" \/ o \in call.todo \/ (call.pc = "remove" /\ call.object = o))

StoreInv ==
    /\ \A c \in StoreCalls : \A call \in {storeCalls[c]} : PutOK(call) /\ RemovalOK(call)
    /\ \A c, d \in StoreCalls : storeCalls[c] # NoStoreCall /\ storeCalls[d] # NoStoreCall
         /\ storeCalls[c].op = "put" /\ storeCalls[d].op = "put"
         /\ storeCalls[c].object = storeCalls[d].object => c = d
    /\ RowsMatchBucket
    /\ sessionEnd = "discarded" => \A c \in StoreCalls : ~ArchivesTranscript(c)
    /\ sessionEnd = "discarded" => \A o \in bucket :
         IsTranscript(o) /\ objects[o].row = "active" /\ o \notin cut
           => \E c \in StoreCalls : ToClean(storeCalls[c], o)

LEMMA StoreCallFields ==
    ASSUME NEW call \in StoreCallTypes, call # NoStoreCall
    PROVE  \/ call.op = "put" /\ call.pc \in {"put", "insert"} /\ call.object \in Nat
           \/ call.op = "delete" /\ call.pc \in {"remove", "mark"} /\ call.object \in Nat
           \/ /\ call.op \in CleanUps /\ call.pc \in {"list", "select", "status", "clear"}
              /\ call.todo \subseteq Nat
           \/ /\ call.op \in CleanUps /\ call.pc \in {"remove", "mark"} /\ call.object \in Nat
              /\ call.todo \subseteq Nat
  BY DEF StoreCallTypes

LEMMA RestFacts ==
    ASSUME NEW op \in CleanUps, NEW todo \in SUBSET Nat
    PROVE  /\ Rest(op, todo) \in StoreCallTypes
           /\ Rest(op, todo) = NoStoreCall => todo = {}
           /\ Rest(op, todo) # NoStoreCall =>
                /\ Rest(op, todo).op = op /\ Rest(op, todo).pc \in {"select", "status"}
                /\ Rest(op, todo).todo = todo
                /\ Rest(op, todo).pc = "status" => todo = {}
<1>. DEFINE next == [op |-> op, pc |-> "select", todo |-> todo]
            last == [op |-> op, pc |-> "status", todo |-> {}]
<1>1. /\ next \in StoreCallTypes /\ next.op = op /\ next.pc = "select" /\ next.todo = todo
      /\ last \in StoreCallTypes /\ last.op = op /\ last.pc = "status" /\ last.todo = {}
      /\ NoStoreCall \in StoreCallTypes
  BY DEF StoreCallTypes
<1>2. next # NoStoreCall /\ last # NoStoreCall
  BY <1>1 DEF NoStoreCall, CleanUps
<1>3. CASE todo # {}
  <2>1. Rest(op, todo) = next
    BY <1>3 DEF Rest
  <2>. HIDE DEF next, last
  <2>. QED
    BY <2>1, <1>1, <1>2
<1>4. CASE todo = {} /\ op = "interrupt"
  <2>1. Rest(op, todo) = last
    BY <1>4 DEF Rest
  <2>. HIDE DEF next, last
  <2>. QED
    BY <2>1, <1>1, <1>2, <1>4
<1>5. CASE todo = {} /\ op # "interrupt"
  BY <1>1, <1>5 DEF Rest
<1>. QED
  BY <1>3, <1>4, <1>5

LEMMA StoreCallInserts ==
    ASSUME NEW call \in StoreCallTypes, call # NoStoreCall, call.pc = "put",
           NEW new, new = [call EXCEPT !.pc = "insert"]
    PROVE  /\ new \in StoreCallTypes /\ new # NoStoreCall /\ call.op = "put"
           /\ new.op = "put" /\ new.pc = "insert" /\ new.object = call.object
<1>1. call \in [op : {"put"}, pc : {"put", "insert"}, object : Nat]
  BY DEF StoreCallTypes
<1>2. new \in [op : {"put"}, pc : {"put", "insert"}, object : Nat]
  BY <1>1
<1>3. new.pc = "insert" /\ new.object = call.object
  BY <1>1
<1>. QED
  BY <1>1, <1>2, <1>3 DEF StoreCallTypes, NoStoreCall

LEMMA StoreCallMarks ==
    ASSUME NEW call \in StoreCallTypes, call # NoStoreCall, call.pc = "remove",
           NEW new, new = [call EXCEPT !.pc = "mark"]
    PROVE  /\ new \in StoreCallTypes /\ new # NoStoreCall /\ call.op \in {"delete"} \cup CleanUps
           /\ new.op = call.op /\ new.pc = "mark" /\ new.object = call.object
           /\ call.op \in CleanUps => new.todo = call.todo
<1>1. CASE call \in [op : {"delete"}, pc : {"remove", "mark"}, object : Nat]
  <2>1. new \in [op : {"delete"}, pc : {"remove", "mark"}, object : Nat]
    BY <1>1
  <2>2. new.op = call.op /\ new.pc = "mark" /\ new.object = call.object
    BY <1>1
  <2>. QED
    BY <1>1, <2>1, <2>2 DEF StoreCallTypes, NoStoreCall, CleanUps
<1>2. CASE call \in [op : CleanUps, pc : {"remove", "mark"}, object : Nat, todo : SUBSET Nat]
  <2>1. new \in [op : CleanUps, pc : {"remove", "mark"}, object : Nat, todo : SUBSET Nat]
    BY <1>2
  <2>2. new.op = call.op /\ new.pc = "mark" /\ new.object = call.object /\ new.todo = call.todo
    BY <1>2
  <2>. QED
    BY <1>2, <2>1, <2>2 DEF StoreCallTypes, NoStoreCall
<1>. QED
  BY <1>1, <1>2 DEF StoreCallTypes

LEMMA StoreStep == StoreShape /\ StoreInv /\ [StoreNext]_storeVars => StoreShape' /\ StoreInv'
<1>. SUFFICES ASSUME StoreShape, StoreInv, [StoreNext]_storeVars PROVE StoreShape' /\ StoreInv'
  OBVIOUS
<1>. DEFINE Live(c) == storeCalls[c] # NoStoreCall
            Puts(c) == Live(c) /\ storeCalls[c].op = "put"
            CallsOK == /\ storeCalls \in [StoreCalls -> StoreCallTypes]
                       /\ \A c \in StoreCalls : \A call \in {storeCalls[c]} : PutOK(call) /\ RemovalOK(call)
                       /\ \A c, d \in StoreCalls : Puts(c) /\ Puts(d)
                            /\ storeCalls[c].object = storeCalls[d].object => c = d
            DiscardOK == sessionEnd = "discarded" =>
                       /\ \A c \in StoreCalls : ~ArchivesTranscript(c)
                       /\ \A o \in bucket : IsTranscript(o) /\ objects[o].row = "active" /\ o \notin cut
                            => \E c \in StoreCalls : ToClean(storeCalls[c], o)
            Follows(call, new) ==
                       /\ \/ new = NoStoreCall
                          \/ /\ new.op \in CleanUps /\ new.pc \in {"select", "status"}
                             /\ call.op \in CleanUps /\ new.todo = call.todo
                             /\ new.pc = "status" => new.todo = {}
                       /\ call.op \in CleanUps => \A p \in call.todo : ToClean(new, p)
            ObjectsOK == objects \in Seq(StoreObjects) /\ bucket \subseteq Ids
<1>0. ObjectsOK /\ CallsOK /\ RowsMatchBucket /\ DiscardOK
  BY DEF StoreShape, StoreInv
<1>q. SUFFICES ObjectsOK' /\ CallsOK' /\ RowsMatchBucket' /\ DiscardOK'
  BY DEF StoreShape, StoreInv
<1>d. /\ Ids = 1..Len(objects) /\ Len(objects) \in Nat
      /\ \A o \in Ids : objects[o] \in StoreObjects /\ objects[o].row \in RowStatuses
                        /\ objects[o].owner \in OwnerTypes
  <2>1. Ids = 1..Len(objects) /\ Len(objects) \in Nat
    BY <1>0, LenProperties DEF Ids
  <2>2. \A o \in Ids : objects[o] \in StoreObjects
    BY <1>0, <2>1, ElementOfSeq
  <2>. QED
    BY <2>1, <2>2 DEF StoreObjects
<1>n. /\ NoStoreCall \in StoreCallTypes /\ PutOK(NoStoreCall)' /\ RemovalOK(NoStoreCall)'
      /\ RemovalOK(NoStoreCall) /\ "put" \notin CleanUps
  BY DEF StoreCallTypes, PutOK, RemovalOK, CleanUps
\* One call moves, and the others keep what they know.
<1>k. ASSUME NEW c \in StoreCalls, NEW new \in StoreCallTypes,
             storeCalls' = [storeCalls EXCEPT ![c] = new], PutOK(new)', RemovalOK(new)',
             \A d \in StoreCalls : d # c => \A call \in {storeCalls[d]} : PutOK(call)' /\ RemovalOK(call)',
             new # NoStoreCall /\ new.op = "put" =>
               \A d \in StoreCalls : d # c /\ Puts(d) => storeCalls[d].object # new.object
      PROVE  CallsOK'
  <2>1. storeCalls' \in [StoreCalls -> StoreCallTypes] /\ storeCalls'[c] = new
    BY <1>k, <1>0
  <2>2. \A d \in StoreCalls : d # c => storeCalls'[d] = storeCalls[d]
    BY <1>k, <1>0
  <2>3. \A d \in StoreCalls : \A call \in {storeCalls'[d]} : PutOK(call)' /\ RemovalOK(call)'
    <3>1. ASSUME NEW d \in StoreCalls, NEW call, call = storeCalls'[d] PROVE PutOK(call)' /\ RemovalOK(call)'
      <4>1. CASE d = c
        BY <4>1, <3>1, <2>1, <1>k
      <4>2. CASE d # c
        BY <4>2, <3>1, <2>2, <1>k
      <4>. QED
        BY <4>1, <4>2
    <3>. QED
      BY <3>1
  <2>4. \A d, e \in StoreCalls : Puts(d)' /\ Puts(e)' /\ storeCalls'[d].object = storeCalls'[e].object => d = e
    BY <2>1, <2>2, <1>k, <1>0
  <2>. QED
    BY <2>1, <2>3, <2>4
\* Where neither an object nor the bucket changes, what a call knows stays true.
<1>u. ASSUME UNCHANGED <<objects, bucket>>
      PROVE  /\ ObjectsOK' /\ Ids' = Ids /\ \A o : IsTranscript(o)' = IsTranscript(o)
             /\ \A call : (PutOK(call) => PutOK(call)') /\ (RemovalOK(call) => RemovalOK(call)')
  BY <1>u, <1>0 DEF Ids, PutOK, RemovalOK, IsTranscript
<1>1. CASE Save
  <2>1. /\ sessionEnd' = "saved" /\ UNCHANGED <<objects, bucket, storeCalls, cut>>
    BY <1>1 DEF Save
  <2>2. CallsOK'
    BY <2>1, <1>0, <1>u
  <2>3. RowsMatchBucket'
    BY <2>1, <1>0 DEF RowsMatchBucket, Doing, Ids
  <2>. QED
    BY <2>1, <2>2, <2>3, <1>u
\* A call that puts nothing moves: it leaves what it had begun to history, and hands
\* on what it had to clean.
<1>v. ASSUME NEW c \in StoreCalls, NEW CONSTANT call, call = storeCalls[c], NEW new \in StoreCallTypes,
             storeCalls' = [storeCalls EXCEPT ![c] = new], RemovalOK(new), new = NoStoreCall \/ new.op # "put",
             UNCHANGED <<objects, bucket>>, cut \subseteq cut',
             call # NoStoreCall /\ call.pc \in {"insert", "mark"} => call.object \in cut',
             \/ sessionEnd' # "discarded"
             \/ /\ sessionEnd = "discarded"
                /\ \A p \in Ids : IsTranscript(p) /\ objects[p].row = "active" /\ ToClean(call, p)
                                    => ToClean(new, p) \/ p \in cut'
             \/ (\A d \in StoreCalls : ~ArchivesTranscript(d)) /\ \A p : ToClean(new, p)
      PROVE  ObjectsOK' /\ CallsOK' /\ RowsMatchBucket' /\ DiscardOK'
  <2>1. CallsOK'
    <3>1. PutOK(new)' /\ RemovalOK(new)'
      BY <1>v, <1>u DEF PutOK
    <3>2. \A d \in StoreCalls : d # c => \A other \in {storeCalls[d]} : PutOK(other)' /\ RemovalOK(other)'
      BY <1>v, <1>u, <1>0
    <3>. QED
      BY <3>1, <3>2, <1>v, <1>k
  <2>2. storeCalls'[c] = new /\ \A d \in StoreCalls : d # c => storeCalls'[d] = storeCalls[d]
    BY <1>v, <1>0
  <2>3. \A op, o : (Doing(op, "insert", o) \/ Doing(op, "mark", o)) /\ o \notin cut'
                     => /\ Doing(op, "insert", o) => Doing(op, "insert", o)'
                        /\ Doing(op, "mark", o) => Doing(op, "mark", o)'
    BY <2>2, <1>v DEF Doing
  <2>4. RowsMatchBucket'
    BY <2>3, <1>v, <1>u, <1>0 DEF RowsMatchBucket
  <2>5. \A d \in StoreCalls : ArchivesTranscript(d)' => ArchivesTranscript(d)
    BY <2>2, <1>v, <1>u DEF ArchivesTranscript
  <2>6. ASSUME sessionEnd' = "discarded" PROVE \A d \in StoreCalls : ~ArchivesTranscript(d)'
    BY <2>5, <2>6, <1>v, <1>0
  <2>7. ASSUME sessionEnd' = "discarded", NEW o \in bucket, IsTranscript(o), objects[o].row = "active", o \notin cut'
        PROVE  \E d \in StoreCalls : ToClean(storeCalls'[d], o)
    <3>1. CASE \A p : ToClean(new, p)
      BY <2>2, <3>1
    <3>2. CASE ~\A p : ToClean(new, p)
      <4>1. /\ sessionEnd = "discarded" /\ o \in Ids /\ o \notin cut
            /\ ToClean(call, o) => ToClean(new, o)
        BY <1>v, <1>0, <2>7, <3>2
      <4>2. PICK d \in StoreCalls : ToClean(storeCalls[d], o)
        BY <1>0, <2>7, <4>1
      <4>3. CASE d = c
        BY <1>v, <2>2, <4>1, <4>2, <4>3
      <4>4. CASE d # c
        BY <2>2, <4>2, <4>4
      <4>. QED
        BY <4>3, <4>4
    <3>. QED
      BY <3>1, <3>2
  <2>8. DiscardOK'
    BY <2>6, <2>7, <1>v, <1>u
  <2>. QED
    BY <2>1, <2>4, <2>8, <1>v, <1>u
<1>2. ASSUME NEW c \in StoreCalls, NEW o \in Ids, StartDelete(c, o)
      PROVE  ObjectsOK' /\ CallsOK' /\ RowsMatchBucket' /\ DiscardOK'
  <2>. SUFFICES ASSUME NEW CONSTANT call, call = storeCalls[c]
                PROVE  ObjectsOK' /\ CallsOK' /\ RowsMatchBucket' /\ DiscardOK'
    OBVIOUS
  <2>. DEFINE new == [op |-> "delete", pc |-> "remove", object |-> o]
  <2>1. /\ objects[o].row = "active" /\ call = NoStoreCall
        /\ storeCalls' = [storeCalls EXCEPT ![c] = new] /\ UNCHANGED <<objects, bucket, sessionEnd, cut>>
    BY <1>2 DEF StartDelete, StartStoreCall
  <2>2. new \in StoreCallTypes /\ new.op # "put" /\ RemovalOK(new)
    BY <2>1, <1>d DEF StoreCallTypes, RemovalOK, CleanUps
  <2>3. \A p : ~ToClean(call, p)
    BY <2>1 DEF ToClean
  <2>. HIDE DEF new
  <2>. QED
    BY <2>1, <2>2, <2>3, <1>v
<1>a. ActiveTranscripts \subseteq Ids /\ Ids \subseteq Nat /\ \A o \in ActiveTranscripts : objects[o].row # "none"
  BY <1>d DEF ActiveTranscripts
\* A cleanup starts.
<1>l. ASSUME NEW op \in CleanUps, NEW pc \in {"list", "status"}, NEW CONSTANT new,
             new = [op |-> op, pc |-> pc, todo |-> {}]
      PROVE  /\ new \in StoreCallTypes /\ new # NoStoreCall /\ new.op # "put" /\ RemovalOK(new)
             /\ pc = "list" => \A p : ToClean(new, p)
  <2>1. new \in StoreCallTypes /\ new.op = op /\ new.pc = pc /\ new.todo = {}
    BY <1>l DEF StoreCallTypes
  <2>2. new # NoStoreCall
    BY <2>1 DEF NoStoreCall, CleanUps
  <2>. QED
    BY <2>1, <2>2, <1>n DEF RemovalOK, ToClean
<1>3. ASSUME NEW c \in StoreCalls, StartDiscard(c)
      PROVE  ObjectsOK' /\ CallsOK' /\ RowsMatchBucket' /\ DiscardOK'
  <2>. SUFFICES ASSUME NEW CONSTANT call, call = storeCalls[c],
                       NEW CONSTANT new, new = [op |-> "cleanup", pc |-> "list", todo |-> {}]
                PROVE  ObjectsOK' /\ CallsOK' /\ RowsMatchBucket' /\ DiscardOK'
    OBVIOUS
  <2>1. /\ \A d \in StoreCalls : ~ArchivesTranscript(d)
        /\ call = NoStoreCall /\ storeCalls' = [storeCalls EXCEPT ![c] = new]
        /\ UNCHANGED <<objects, bucket, cut>>
    BY <1>3 DEF StartDiscard, StartStoreCall, MayStop
  <2>2. new \in StoreCallTypes /\ new.op # "put" /\ RemovalOK(new) /\ \A p : ToClean(new, p)
    BY <1>l DEF CleanUps
  <2>. QED
    BY <2>1, <2>2, <1>v
<1>13. ASSUME NEW c \in StoreCalls, NEW pc \in {"list", "status"}, StartInterrupt(c, pc)
      PROVE  ObjectsOK' /\ CallsOK' /\ RowsMatchBucket' /\ DiscardOK'
  <2>. SUFFICES ASSUME NEW CONSTANT call, call = storeCalls[c],
                       NEW CONSTANT new, new = [op |-> "interrupt", pc |-> pc, todo |-> {}]
                PROVE  ObjectsOK' /\ CallsOK' /\ RowsMatchBucket' /\ DiscardOK'
    OBVIOUS
  <2>1. /\ sessionEnd' # "discarded" /\ call = NoStoreCall
        /\ storeCalls' = [storeCalls EXCEPT ![c] = new] /\ UNCHANGED <<objects, bucket, cut>>
    BY <1>13 DEF StartInterrupt, StartStoreCall
  <2>2. new \in StoreCallTypes /\ new.op # "put" /\ RemovalOK(new)
    BY <1>l DEF CleanUps
  <2>. QED
    BY <2>1, <2>2, <1>v
\* What is left of a cleanup.
<1>w. ASSUME NEW op \in CleanUps, NEW todo \in SUBSET Ids, \A o \in todo : objects[o].row # "none",
             NEW CONSTANT new, new = Rest(op, todo)
      PROVE  /\ new \in StoreCallTypes /\ RemovalOK(new) /\ (new = NoStoreCall \/ new.op # "put")
             /\ \A p \in todo : ToClean(new, p)
  <2>1. todo \in SUBSET Nat
    BY <1>a
  <2>2. new \in StoreCallTypes /\ (new = NoStoreCall => todo = {})
    BY <2>1, <1>w, RestFacts
  <2>3. new # NoStoreCall => new.op = op /\ new.pc \in {"select", "status"} /\ new.todo = todo
                           /\ (new.pc = "status" => todo = {})
    BY <2>1, <1>w, RestFacts
  <2>. QED
    BY <2>2, <2>3, <1>w, <1>n DEF RemovalOK, ToClean
\* A new object, and the call that puts it.
<1>p. ASSUME NEW c \in StoreCalls, NEW owner \in OwnerTypes, Put(c, owner), UNCHANGED <<bucket, cut>>,
             NEW CONSTANT o, o = Len(objects) + 1
      PROVE  /\ ObjectsOK' /\ CallsOK' /\ RowsMatchBucket' /\ storeCalls[c] = NoStoreCall
             /\ \A d \in StoreCalls : d # c => storeCalls'[d] = storeCalls[d]
             /\ storeCalls'[c] = [op |-> "put", pc |-> "put", object |-> o]
             /\ Ids' = Ids \cup {o} /\ o \notin Ids /\ \A p \in Ids : objects'[p] = objects[p]
             /\ objects'[o].owner = owner
  <2>. DEFINE row == [row |-> "none", owner |-> owner]
              new == [op |-> "put", pc |-> "put", object |-> o]
  <2>1. /\ objects' = Append(objects, row) /\ storeCalls[c] = NoStoreCall
        /\ storeCalls' = [storeCalls EXCEPT ![c] = new]
    BY <1>p DEF Put, StartStoreCall
  <2>2. row \in StoreObjects
    BY <1>p DEF StoreObjects, RowStatuses
  <2>3. /\ objects' \in Seq(StoreObjects) /\ Len(objects') = o
        /\ \A p \in 1..Len(objects) : objects'[p] = objects[p]
        /\ objects'[o] = row
    BY <1>0, <1>p, <2>1, <2>2, AppendProperties
  <2>4. objects'[o].row = "none" /\ objects'[o].owner = owner
    BY <2>3
  <2>5. /\ Ids' = Ids \cup {o} /\ o \notin Ids /\ o \in Nat
        /\ \A p \in Ids : objects'[p] = objects[p]
    <3>1. Ids' = 1..o
      BY <2>3, LenProperties DEF Ids
    <3>. QED
      BY <3>1, <1>d, <1>p, <2>3
  <2>6. ObjectsOK'
    BY <1>p, <1>0, <2>3, <2>5
  <2>7. /\ new \in StoreCallTypes /\ new # NoStoreCall
        /\ new.op = "put" /\ new.pc = "put" /\ new.object = o
    BY <2>5 DEF StoreCallTypes, NoStoreCall
  <2>. HIDE DEF new, row
  <2>8. PutOK(new)' /\ RemovalOK(new)'
    BY <2>4, <2>5, <2>7, <1>0, <1>p DEF PutOK, RemovalOK
  <2>9. \A call : (PutOK(call) => PutOK(call)') /\ (RemovalOK(call) => RemovalOK(call)')
    BY <2>5, <1>p DEF PutOK, RemovalOK
  <2>10. \A d \in StoreCalls : d # c /\ Puts(d) => storeCalls[d].object # new.object
    BY <2>5, <2>7, <1>0 DEF PutOK
  <2>11. \A d \in StoreCalls : d # c => \A call \in {storeCalls[d]} : PutOK(call)' /\ RemovalOK(call)'
    BY <2>9, <1>0
  <2>12. CallsOK'
    BY <2>1, <2>7, <2>8, <2>10, <2>11, <1>k
  <2>13. \A op, pc, p : Doing(op, pc, p) => Doing(op, pc, p)'
    BY <2>1, <1>0 DEF Doing
  <2>14. RowsMatchBucket'
    BY <2>4, <2>5, <2>13, <1>p, <1>0 DEF RowsMatchBucket
  <2>15. storeCalls'[c] = new /\ \A d \in StoreCalls : d # c => storeCalls'[d] = storeCalls[d]
    BY <2>1, <1>0
  <2>. QED
    BY <2>1, <2>4, <2>5, <2>6, <2>12, <2>14, <2>15 DEF new
<1>4. ASSUME NEW c \in StoreCalls, StartPut(c)
      PROVE  ObjectsOK' /\ CallsOK' /\ RowsMatchBucket' /\ DiscardOK'
  <2>1. Put(c, "other") /\ UNCHANGED <<bucket, sessionEnd, cut>> /\ "other" \in OwnerTypes
    BY <1>4 DEF StartPut, OwnerTypes
  <2>. SUFFICES ASSUME NEW CONSTANT o, o = Len(objects) + 1
                PROVE  ObjectsOK' /\ CallsOK' /\ RowsMatchBucket' /\ DiscardOK'
    OBVIOUS
  <2>2. /\ ObjectsOK' /\ CallsOK' /\ RowsMatchBucket' /\ storeCalls[c] = NoStoreCall
        /\ \A d \in StoreCalls : d # c => storeCalls'[d] = storeCalls[d]
        /\ storeCalls'[c] = [op |-> "put", pc |-> "put", object |-> o]
        /\ Ids' = Ids \cup {o} /\ \A p \in Ids : objects'[p] = objects[p]
        /\ objects'[o].owner = "other"
    BY <1>p, <2>1
  <2>3. \A d \in StoreCalls : ArchivesTranscript(d)' => ArchivesTranscript(d)
    <3>1. ~ArchivesTranscript(c)'
      BY <2>2 DEF ArchivesTranscript, IsTranscript
    <3>2. \A d \in StoreCalls : Puts(d) => storeCalls[d].object \in Ids
      BY <1>0 DEF PutOK
    <3>. QED
      BY <3>1, <3>2, <2>2 DEF ArchivesTranscript, IsTranscript
  <2>4. \A d \in StoreCalls : \A p : ToClean(storeCalls[d], p) => ToClean(storeCalls'[d], p)
    BY <2>2 DEF ToClean
  <2>5. \A p \in bucket : p \in Ids /\ objects'[p] = objects[p]
    BY <1>0, <2>2
  <2>. QED
    BY <2>1, <2>2, <2>3, <2>4, <2>5, <1>0 DEF IsTranscript
<1>5. ASSUME NEW c \in StoreCalls, StartArchive(c)
      PROVE  ObjectsOK' /\ CallsOK' /\ RowsMatchBucket' /\ DiscardOK'
  <2>1. /\ Put(c, "session") /\ UNCHANGED <<bucket, sessionEnd, cut>> /\ sessionEnd = "saved"
        /\ "session" \in OwnerTypes
    BY <1>5 DEF StartArchive, OwnerTypes
  <2>. SUFFICES ASSUME NEW CONSTANT o, o = Len(objects) + 1
                PROVE  ObjectsOK' /\ CallsOK' /\ RowsMatchBucket' /\ DiscardOK'
    OBVIOUS
  <2>2. ObjectsOK' /\ CallsOK' /\ RowsMatchBucket'
    BY <1>p, <2>1
  <2>. QED
    BY <2>1, <2>2
<1>6. ASSUME NEW c \in StoreCalls, PutObject(c)
      PROVE  ObjectsOK' /\ CallsOK' /\ RowsMatchBucket' /\ DiscardOK'
  <2>. SUFFICES ASSUME NEW CONSTANT call, call = storeCalls[c]
                PROVE  ObjectsOK' /\ CallsOK' /\ RowsMatchBucket' /\ DiscardOK'
    OBVIOUS
  <2>. DEFINE new == [call EXCEPT !.pc = "insert"]
              o == call.object
  <2>1. /\ call # NoStoreCall /\ call.pc = "put" /\ bucket' = bucket \cup {o}
        /\ storeCalls' = [storeCalls EXCEPT ![c] = new] /\ UNCHANGED <<objects, sessionEnd, cut>>
    BY <1>6 DEF PutObject, StoreAt
  <2>2. /\ new \in StoreCallTypes /\ new # NoStoreCall /\ new.op = "put" /\ new.pc = "insert"
        /\ new.object = o /\ call.op = "put"
    <3>1. call \in StoreCallTypes
      BY <1>0
    <3>2. new = [call EXCEPT !.pc = "insert"]
      OBVIOUS
    <3>. HIDE DEF new
    <3>. QED
      BY <3>1, <3>2, <2>1, StoreCallInserts
  <2>. HIDE DEF new
  <2>3. o \in Ids /\ objects[o].row = "none" /\ Ids' = Ids /\ ObjectsOK'
    BY <2>1, <2>2, <1>0 DEF PutOK, Ids
  <2>4. \A d \in StoreCalls : d # c /\ Puts(d) => storeCalls[d].object # o
    BY <2>1, <2>2, <1>0
  <2>5. PutOK(new)' /\ RemovalOK(new)'
    BY <2>1, <2>2, <2>3 DEF PutOK, RemovalOK
  <2>6. \A d \in StoreCalls : d # c => \A other \in {storeCalls[d]} : PutOK(other)' /\ RemovalOK(other)'
    <3>1. ASSUME NEW d \in StoreCalls, d # c, NEW other, other = storeCalls[d]
          PROVE  PutOK(other)' /\ RemovalOK(other)'
      <4>1. PutOK(other) /\ RemovalOK(other) /\ other \in StoreCallTypes
        BY <3>1, <1>0
      <4>2. PutOK(other)'
        BY <4>1, <3>1, <2>1, <2>3, <2>4 DEF PutOK
      <4>3. RemovalOK(other)'
        <5>. SUFFICES ASSUME other # NoStoreCall, other.op # "put" PROVE RemovalOK(other)'
          BY DEF RemovalOK
        <5>1. other.pc = "mark" => other.object # o
          BY <4>1, <2>3 DEF RemovalOK
        <5>. QED
          BY <4>1, <5>1, <2>1, <2>3 DEF RemovalOK
      <4>. QED
        BY <4>2, <4>3
    <3>. QED
      BY <3>1
  <2>7. CallsOK'
    <3>1. \A d \in StoreCalls : d # c /\ Puts(d) => storeCalls[d].object # new.object
      BY <2>2, <2>4
    <3>. QED
      BY <3>1, <2>1, <2>2, <2>5, <2>6, <1>k
  <2>8. /\ Doing({"put"}, "insert", o)'
        /\ \A op, pc, p : p # o /\ Doing(op, pc, p) => Doing(op, pc, p)'
    BY <2>1, <2>2, <1>0 DEF Doing
  <2>9. RowsMatchBucket'
    BY <2>1, <2>3, <2>8, <1>0 DEF RowsMatchBucket
  <2>10. DiscardOK'
    <3>1. \A d \in StoreCalls : \A p : ToClean(storeCalls[d], p) => ToClean(storeCalls'[d], p)
      BY <2>1, <2>2, <1>0, <1>n DEF ToClean
    <3>2. \A d \in StoreCalls : ArchivesTranscript(d)' => ArchivesTranscript(d)
      BY <2>1, <2>2, <1>0 DEF ArchivesTranscript, IsTranscript
    <3>. QED
      BY <3>1, <3>2, <2>1, <2>3, <1>0 DEF IsTranscript
  <2>. QED
    BY <2>3, <2>7, <2>9, <2>10
<1>7. ASSUME NEW c \in StoreCalls, RemoveObject(c)
      PROVE  ObjectsOK' /\ CallsOK' /\ RowsMatchBucket' /\ DiscardOK'
  <2>. SUFFICES ASSUME NEW CONSTANT call, call = storeCalls[c]
                PROVE  ObjectsOK' /\ CallsOK' /\ RowsMatchBucket' /\ DiscardOK'
    OBVIOUS
  <2>. DEFINE new == [call EXCEPT !.pc = "mark"]
              o == call.object
  <2>1. /\ call # NoStoreCall /\ call.pc = "remove" /\ bucket' = bucket \ {o}
        /\ storeCalls' = [storeCalls EXCEPT ![c] = new] /\ UNCHANGED <<objects, sessionEnd, cut>>
    BY <1>7 DEF RemoveObject, StoreAt
  <2>2. call \in StoreCallTypes /\ PutOK(call) /\ RemovalOK(call)
    BY <1>0
  <2>3. call.op \in {"delete"} \cup CleanUps /\ call.op # "put"
    BY <2>1, <2>2, <1>n, StoreCallFields
  <2>4. /\ new \in StoreCallTypes /\ new # NoStoreCall /\ new.op = call.op /\ new.pc = "mark"
        /\ new.object = o /\ (call.op \in CleanUps => new.todo = call.todo)
    <3>1. new = [call EXCEPT !.pc = "mark"]
      OBVIOUS
    <3>. HIDE DEF new
    <3>. QED
      BY <3>1, <2>1, <2>2, StoreCallMarks
  <2>. HIDE DEF new
  <2>5. o \in Ids /\ objects[o].row # "none" /\ Ids' = Ids /\ ObjectsOK'
    BY <2>1, <2>2, <2>3, <1>0 DEF RemovalOK, Ids
  <2>6. \A other : (PutOK(other) => PutOK(other)') /\ (RemovalOK(other) => RemovalOK(other)')
    BY <2>1, <2>5 DEF PutOK, RemovalOK
  <2>7. PutOK(new)' /\ RemovalOK(new)'
    BY <2>1, <2>2, <2>3, <2>4, <2>5 DEF PutOK, RemovalOK
  <2>8. CallsOK'
    <3>1. \A d \in StoreCalls : d # c => \A other \in {storeCalls[d]} : PutOK(other)' /\ RemovalOK(other)'
      BY <2>6, <1>0
    <3>. QED
      BY <3>1, <2>1, <2>3, <2>4, <2>7, <1>k
  <2>9. storeCalls'[c] = new /\ \A d \in StoreCalls : d # c => storeCalls'[d] = storeCalls[d]
    BY <2>1, <1>0
  <2>10. /\ Doing({"delete"} \cup CleanUps, "mark", o)'
         /\ \A op, pc, p : pc # "remove" /\ Doing(op, pc, p) => Doing(op, pc, p)'
    BY <2>1, <2>3, <2>4, <2>9 DEF Doing
  <2>11. RowsMatchBucket'
    BY <2>1, <2>5, <2>10, <1>0 DEF RowsMatchBucket
  <2>12. DiscardOK'
    <3>1. \A d \in StoreCalls : \A p : p # o /\ ToClean(storeCalls[d], p) => ToClean(storeCalls'[d], p)
      BY <2>1, <2>4, <2>9 DEF ToClean
    <3>2. \A d \in StoreCalls : ArchivesTranscript(d)' => ArchivesTranscript(d)
      BY <2>1, <2>3, <2>4, <2>9 DEF ArchivesTranscript, IsTranscript
    <3>. QED
      BY <3>1, <3>2, <2>1, <2>5, <1>0 DEF IsTranscript
  <2>. QED
    BY <2>5, <2>8, <2>11, <2>12
\* What follows a call that ended: no call, or the rest of the cleanup's list.
<1>e. ASSUME NEW c \in StoreCalls, EndStoreCall(c), storeCalls[c] # NoStoreCall,
             NEW CONSTANT call, call = storeCalls[c]
      PROVE  \E new \in StoreCallTypes :
               storeCalls' = [storeCalls EXCEPT ![c] = new] /\ Follows(call, new)
  <2>1. call \in StoreCallTypes /\ call # NoStoreCall
    BY <1>e, <1>0
  <2>2. CASE call.op \in CleanUps
    <3>. SUFFICES ASSUME NEW CONSTANT new, new = Rest(call.op, call.todo)
                  PROVE  \E next \in StoreCallTypes :
                           storeCalls' = [storeCalls EXCEPT ![c] = next] /\ Follows(call, next)
      OBVIOUS
    <3>1. storeCalls' = [storeCalls EXCEPT ![c] = new]
      BY <1>e, <2>2 DEF EndStoreCall
    <3>2. call.todo \subseteq Ids /\ \A o \in call.todo : objects[o].row # "none"
      <4>1. RemovalOK(call)
        BY <1>e, <1>0
      <4>. QED
        BY <2>1, <2>2, <4>1, <1>n DEF RemovalOK
    <3>3. new \in StoreCallTypes /\ \A p \in call.todo : ToClean(new, p)
      BY <2>2, <3>2, <1>w
    <3>4. new # NoStoreCall => new.op = call.op /\ new.pc \in {"select", "status"} /\ new.todo = call.todo
                             /\ (new.pc = "status" => new.todo = {})
      <4>1. call.todo \in SUBSET Nat
        BY <3>2, <1>a
      <4>. QED
        BY <2>2, <4>1, RestFacts
    <3>. QED
      BY <3>1, <3>3, <3>4, <2>2
  <2>3. CASE call.op \notin CleanUps
    <3>1. storeCalls' = [storeCalls EXCEPT ![c] = NoStoreCall]
      BY <1>e, <2>3 DEF EndStoreCall
    <3>. NoStoreCall \in StoreCallTypes
      BY <1>n
    <3>. WITNESS NoStoreCall \in StoreCallTypes
    <3>. QED
      BY <3>1, <2>3
  <2>. QED
    BY <2>2, <2>3
\* A row changes its status.
<1>r. ASSUME NEW o \in Ids, NEW status \in RowStatuses \ {"none"}, SetRow(o, status), UNCHANGED bucket
      PROVE  /\ ObjectsOK' /\ Ids' = Ids /\ \A p \in Ids : p # o => objects'[p] = objects[p]
             /\ objects'[o].row = status
             /\ \A p \in Ids : IsTranscript(p)' <=> IsTranscript(p)
             /\ \A call : RemovalOK(call) => RemovalOK(call)'
             /\ \A call : PutOK(call) /\ (call # NoStoreCall /\ call.op = "put" => call.object # o)
                            => PutOK(call)'
  <2>. DEFINE row == [objects[o] EXCEPT !.row = status]
  <2>1. objects' = [objects EXCEPT ![o] = row]
    BY <1>r DEF SetRow
  <2>2. row \in StoreObjects /\ row.row = status /\ row.owner = objects[o].owner
    BY <1>r, <1>d DEF StoreObjects
  <2>. HIDE DEF row
  <2>3. objects' \in Seq(StoreObjects) /\ Len(objects') = Len(objects)
    BY <1>r, <1>0, <1>d, <2>1, <2>2, ExceptSeq
  <2>4. objects'[o] = row /\ \A p \in Ids : p # o => objects'[p] = objects[p]
    BY <1>r, <1>d, <2>1 DEF Ids
  <2>5. Ids' = Ids /\ ObjectsOK'
    BY <2>3, <1>r, <1>0, <1>d, LenProperties DEF Ids
  <2>6. \A p \in Ids : objects'[p].row = "none" => objects[p].row = "none"
    BY <1>r, <2>2, <2>4
  <2>7. \A p \in Ids : IsTranscript(p)' <=> IsTranscript(p)
    BY <2>2, <2>4 DEF IsTranscript
  <2>8. \A call : RemovalOK(call) => RemovalOK(call)'
    BY <2>5, <2>6, <1>r DEF RemovalOK
  <2>9. \A call : PutOK(call) /\ (call # NoStoreCall /\ call.op = "put" => call.object # o)
          => PutOK(call)'
    BY <2>4, <2>5, <1>r DEF PutOK
  <2>. QED
    BY <2>2, <2>4, <2>5, <2>7, <2>8, <2>9
<1>8. ASSUME NEW c \in StoreCalls, InsertObject(c)
      PROVE  ObjectsOK' /\ CallsOK' /\ RowsMatchBucket' /\ DiscardOK'
  <2>. SUFFICES ASSUME NEW CONSTANT call, call = storeCalls[c], NEW CONSTANT o, o = call.object
                PROVE  ObjectsOK' /\ CallsOK' /\ RowsMatchBucket' /\ DiscardOK'
    OBVIOUS
  <2>1. /\ call # NoStoreCall /\ call.pc = "insert" /\ SetRow(o, "active") /\ EndStoreCall(c)
        /\ UNCHANGED <<bucket, sessionEnd, cut>>
    BY <1>8 DEF InsertObject, StoreAt
  <2>2. call \in StoreCallTypes /\ PutOK(call) /\ call.op = "put"
    <3>1. call \in StoreCallTypes /\ PutOK(call)
      BY <1>0
    <3>. QED
      BY <3>1, <2>1, StoreCallFields
  <2>3. o \in Ids /\ o \in bucket /\ objects[o].row = "none"
    BY <2>1, <2>2 DEF PutOK
  <2>4. storeCalls' = [storeCalls EXCEPT ![c] = NoStoreCall]
    BY <2>1, <2>2, <1>n DEF EndStoreCall
  <2>5. /\ ObjectsOK' /\ Ids' = Ids /\ \A p \in Ids : p # o => objects'[p] = objects[p]
        /\ objects'[o].row = "active"
        /\ \A p \in Ids : IsTranscript(p)' <=> IsTranscript(p)
        /\ \A other : RemovalOK(other) => RemovalOK(other)'
        /\ \A other : PutOK(other) /\ (other # NoStoreCall /\ other.op = "put" => other.object # o)
                        => PutOK(other)'
    BY <2>1, <2>3, <1>r DEF RowStatuses
  <2>6. \A d \in StoreCalls : d # c => \A other \in {storeCalls[d]} : PutOK(other)' /\ RemovalOK(other)'
    BY <2>1, <2>2, <2>5, <1>0
  <2>7. CallsOK'
    BY <2>4, <2>6, <1>n, <1>k
  <2>8. storeCalls'[c] = NoStoreCall /\ \A d \in StoreCalls : d # c => storeCalls'[d] = storeCalls[d]
    BY <2>4, <1>0
  <2>9. \A op, pc, p : p # o /\ Doing(op, pc, p) => Doing(op, pc, p)'
    BY <2>8 DEF Doing
  <2>10. RowsMatchBucket'
    BY <2>1, <2>3, <2>5, <2>9, <1>0 DEF RowsMatchBucket
  <2>11. DiscardOK'
    <3>1. sessionEnd = "discarded" => ~IsTranscript(o)
      BY <2>1, <2>2, <1>0 DEF ArchivesTranscript
    <3>2. \A d \in StoreCalls : \A p : ToClean(storeCalls[d], p) => ToClean(storeCalls'[d], p)
      BY <2>2, <2>8, <1>n DEF ToClean
    <3>3. \A d \in StoreCalls : Puts(d) => storeCalls[d].object \in Ids
      BY <1>0 DEF PutOK
    <3>4. \A d \in StoreCalls : ArchivesTranscript(d)' => ArchivesTranscript(d)
      BY <2>5, <2>8, <3>3 DEF ArchivesTranscript
    <3>. QED
      BY <3>1, <3>2, <3>4, <2>1, <2>5, <1>0
  <2>. QED
    BY <2>5, <2>7, <2>10, <2>11
<1>9. ASSUME NEW c \in StoreCalls, MarkDeleted(c)
      PROVE  ObjectsOK' /\ CallsOK' /\ RowsMatchBucket' /\ DiscardOK'
  <2>. SUFFICES ASSUME NEW CONSTANT call, call = storeCalls[c], NEW CONSTANT o, o = call.object
                PROVE  ObjectsOK' /\ CallsOK' /\ RowsMatchBucket' /\ DiscardOK'
    OBVIOUS
  <2>1. /\ call # NoStoreCall /\ call.pc = "mark" /\ SetRow(o, "deleted") /\ EndStoreCall(c)
        /\ UNCHANGED <<bucket, sessionEnd, cut>>
    BY <1>9 DEF MarkDeleted, StoreAt
  <2>2. call \in StoreCallTypes /\ RemovalOK(call) /\ call.op # "put"
    <3>1. call \in StoreCallTypes /\ RemovalOK(call)
      BY <1>0
    <3>. QED
      BY <3>1, <2>1, <1>n, StoreCallFields
  <2>3. o \in Ids /\ o \notin bucket /\ objects[o].row # "none"
    BY <2>1, <2>2 DEF RemovalOK
  <2>4. PICK new \in StoreCallTypes :
          storeCalls' = [storeCalls EXCEPT ![c] = new] /\ Follows(call, new)
    <3>. HIDE DEF Follows
    <3>. QED
      BY <2>1, <1>e
  <2>5. /\ ObjectsOK' /\ Ids' = Ids /\ \A p \in Ids : p # o => objects'[p] = objects[p]
        /\ objects'[o].row = "deleted"
        /\ \A p \in Ids : IsTranscript(p)' <=> IsTranscript(p)
        /\ \A other : RemovalOK(other) => RemovalOK(other)'
        /\ \A other : PutOK(other) /\ (other # NoStoreCall /\ other.op = "put" => other.object # o)
                        => PutOK(other)'
    BY <2>1, <2>3, <1>r DEF RowStatuses
  <2>6. \A d \in StoreCalls : d # c => \A other \in {storeCalls[d]} : PutOK(other)' /\ RemovalOK(other)'
    <3>1. \A other : PutOK(other) /\ other # NoStoreCall /\ other.op = "put" => other.object # o
      BY <2>3 DEF PutOK
    <3>. QED
      BY <3>1, <2>5, <1>0
  <2>7. PutOK(new)' /\ RemovalOK(new)' /\ (new = NoStoreCall \/ new.op # "put")
    <3>1. RemovalOK(call)'
      BY <2>2, <2>5
    <3>. QED
      BY <3>1, <2>1, <2>2, <2>4, <1>n DEF PutOK, RemovalOK
  <2>8. CallsOK'
    BY <2>4, <2>6, <2>7, <1>k
  <2>9. storeCalls'[c] = new /\ \A d \in StoreCalls : d # c => storeCalls'[d] = storeCalls[d]
    BY <2>4, <1>0
  <2>10. \A op, pc, p : p # o /\ Doing(op, pc, p) => Doing(op, pc, p)'
    BY <2>9 DEF Doing
  <2>11. RowsMatchBucket'
    BY <2>1, <2>3, <2>5, <2>10, <1>0 DEF RowsMatchBucket
  <2>12. DiscardOK'
    <3>1. \A d \in StoreCalls : \A p : ToClean(storeCalls[d], p) => ToClean(storeCalls'[d], p)
      BY <2>1, <2>4, <2>9 DEF ToClean
    <3>2. \A d \in StoreCalls : Puts(d) => storeCalls[d].object \in Ids
      BY <1>0 DEF PutOK
    <3>3. \A d \in StoreCalls : ArchivesTranscript(d)' => ArchivesTranscript(d)
      BY <2>5, <2>7, <2>9, <3>2 DEF ArchivesTranscript
    <3>. QED
      BY <3>1, <3>3, <2>1, <2>3, <2>5, <1>0
  <2>. QED
    BY <2>5, <2>8, <2>11, <2>12
<1>10. ASSUME NEW c \in StoreCalls, StoreFails(c)
      PROVE  ObjectsOK' /\ CallsOK' /\ RowsMatchBucket' /\ DiscardOK'
  <2>. SUFFICES ASSUME NEW CONSTANT call, call = storeCalls[c], NEW CONSTANT o, o = call.object
                PROVE  ObjectsOK' /\ CallsOK' /\ RowsMatchBucket' /\ DiscardOK'
    OBVIOUS
  <2>1. /\ call # NoStoreCall /\ call.pc \in {"put", "insert", "remove", "mark"}
        /\ cut' = cut \cup {o} /\ EndStoreCall(c)
        /\ UNCHANGED <<objects, bucket, sessionEnd>>
    BY <1>10 DEF StoreFails
  <2>2. call \in StoreCallTypes /\ RemovalOK(call)
    BY <1>0
  <2>3. PICK new \in StoreCallTypes :
          storeCalls' = [storeCalls EXCEPT ![c] = new] /\ Follows(call, new)
    <3>. HIDE DEF Follows
    <3>. QED
      BY <2>1, <1>e
  <2>4. RemovalOK(new) /\ (new = NoStoreCall \/ new.op # "put")
    BY <2>1, <2>2, <2>3, <1>n DEF RemovalOK
  <2>5. \A p : ToClean(call, p) => ToClean(new, p) \/ p \in cut'
    BY <2>1, <2>3 DEF ToClean
  <2>. QED
    BY <2>1, <2>3, <2>4, <2>5, <1>v
\* What a cleanup knows of its list.
<1>c. ASSUME NEW c \in StoreCalls, NEW CONSTANT call, call = storeCalls[c], call # NoStoreCall,
             call.pc \in {"list", "select", "status", "clear"}
      PROVE  /\ call.op \in CleanUps /\ call.todo \subseteq Ids
             /\ \A p \in call.todo : objects[p].row # "none"
  <2>1. call \in StoreCallTypes /\ RemovalOK(call)
    BY <1>c, <1>0
  <2>2. call.op \in CleanUps
    BY <2>1, <1>c, StoreCallFields
  <2>. QED
    BY <2>1, <2>2, <1>c, <1>n DEF RemovalOK
<1>11. ASSUME NEW c \in StoreCalls, CleanupSelects(c)
      PROVE  ObjectsOK' /\ CallsOK' /\ RowsMatchBucket' /\ DiscardOK'
  <2>. SUFFICES ASSUME NEW CONSTANT call, call = storeCalls[c]
                PROVE  ObjectsOK' /\ CallsOK' /\ RowsMatchBucket' /\ DiscardOK'
    OBVIOUS
  <2>1. call # NoStoreCall /\ call.pc = "select" /\ UNCHANGED <<objects, bucket, sessionEnd, cut>>
    BY <1>11 DEF CleanupSelects, StoreAt
  <2>2. call.op \in CleanUps /\ call.todo \subseteq Ids /\ \A p \in call.todo : objects[p].row # "none"
    BY <2>1, <1>c
  <2>3. PICK o \in call.todo : storeCalls' = [storeCalls EXCEPT ![c] =
            IF objects[o].row = "active"
            THEN [op |-> @.op, pc |-> "remove", object |-> o, todo |-> @.todo \ {o}]
            ELSE Rest(@.op, @.todo \ {o})]
    BY <1>11 DEF CleanupSelects
  <2>4. CASE objects[o].row = "active"
    <3>. SUFFICES ASSUME NEW CONSTANT new,
                         new = [op |-> call.op, pc |-> "remove", object |-> o, todo |-> call.todo \ {o}]
                  PROVE  ObjectsOK' /\ CallsOK' /\ RowsMatchBucket' /\ DiscardOK'
      OBVIOUS
    <3>1. storeCalls' = [storeCalls EXCEPT ![c] = new]
      BY <2>3, <2>4
    <3>2. /\ new \in StoreCallTypes /\ new.op = call.op /\ new.pc = "remove" /\ new.object = o
          /\ new.todo = call.todo \ {o}
      BY <2>2, <1>a DEF StoreCallTypes
    <3>3. new # NoStoreCall
      BY <3>2, <2>2 DEF NoStoreCall, CleanUps
    <3>4. RemovalOK(new) /\ new.op # "put"
      BY <3>2, <2>2, <2>4, <1>n DEF RemovalOK
    <3>5. \A p : ToClean(call, p) => ToClean(new, p)
      BY <3>2, <3>3, <2>1 DEF ToClean
    <3>. QED
      BY <2>1, <3>1, <3>2, <3>4, <3>5, <1>v
  <2>5. CASE objects[o].row # "active"
    <3>. SUFFICES ASSUME NEW CONSTANT new, new = Rest(call.op, call.todo \ {o})
                  PROVE  ObjectsOK' /\ CallsOK' /\ RowsMatchBucket' /\ DiscardOK'
      OBVIOUS
    <3>1. storeCalls' = [storeCalls EXCEPT ![c] = new]
      BY <2>3, <2>5
    <3>2. /\ new \in StoreCallTypes /\ RemovalOK(new) /\ (new = NoStoreCall \/ new.op # "put")
          /\ \A p \in call.todo \ {o} : ToClean(new, p)
      BY <2>2, <1>w
    <3>3. \A p : objects[p].row = "active" /\ ToClean(call, p) => ToClean(new, p)
      BY <3>2, <2>1, <2>5 DEF ToClean
    <3>. QED
      BY <2>1, <3>1, <3>2, <3>3, <1>v
  <2>. QED
    BY <2>4, <2>5
<1>14. ASSUME NEW c \in StoreCalls, ListTranscripts(c)
      PROVE  ObjectsOK' /\ CallsOK' /\ RowsMatchBucket' /\ DiscardOK'
  <2>. SUFFICES ASSUME NEW CONSTANT call, call = storeCalls[c],
                       NEW CONSTANT new, new = Rest(call.op, ActiveTranscripts)
                PROVE  ObjectsOK' /\ CallsOK' /\ RowsMatchBucket' /\ DiscardOK'
    OBVIOUS
  <2>1. /\ call # NoStoreCall /\ call.pc = "list" /\ UNCHANGED <<objects, bucket, sessionEnd, cut>>
        /\ storeCalls' = [storeCalls EXCEPT ![c] = new]
    BY <1>14 DEF ListTranscripts, StoreAt
  <2>2. call.op \in CleanUps
    BY <2>1, <1>c
  <2>3. /\ new \in StoreCallTypes /\ RemovalOK(new) /\ (new = NoStoreCall \/ new.op # "put")
        /\ \A p \in ActiveTranscripts : ToClean(new, p)
    BY <2>2, <1>a, <1>w
  <2>4. \A p \in Ids : IsTranscript(p) /\ objects[p].row = "active" => ToClean(new, p)
    BY <2>3 DEF ActiveTranscripts
  <2>. QED
    BY <2>1, <2>3, <2>4, <1>v
<1>15. ASSUME NEW c \in StoreCalls, CleanupFails(c)
      PROVE  ObjectsOK' /\ CallsOK' /\ RowsMatchBucket' /\ DiscardOK'
  <2>. SUFFICES ASSUME NEW CONSTANT call, call = storeCalls[c]
                PROVE  ObjectsOK' /\ CallsOK' /\ RowsMatchBucket' /\ DiscardOK'
    OBVIOUS
  <2>1. CASE /\ StoreAt(c, "list") /\ cut' = cut \cup ActiveTranscripts
             /\ storeCalls' = [storeCalls EXCEPT ![c] = Rest(@.op, {})]
    <3>. SUFFICES ASSUME NEW CONSTANT new, new = Rest(call.op, {})
                  PROVE  ObjectsOK' /\ CallsOK' /\ RowsMatchBucket' /\ DiscardOK'
      OBVIOUS
    <3>1. /\ call # NoStoreCall /\ call.pc = "list" /\ UNCHANGED <<objects, bucket, sessionEnd>>
          /\ storeCalls' = [storeCalls EXCEPT ![c] = new] /\ cut' = cut \cup ActiveTranscripts
      BY <1>15, <2>1 DEF CleanupFails, StoreAt
    <3>2. call.op \in CleanUps
      BY <3>1, <1>c
    <3>3. new \in StoreCallTypes /\ RemovalOK(new) /\ (new = NoStoreCall \/ new.op # "put")
      BY <3>2, <1>w
    <3>4. \A p \in Ids : IsTranscript(p) /\ objects[p].row = "active" => p \in cut'
      BY <3>1 DEF ActiveTranscripts
    <3>. QED
      BY <3>1, <3>3, <3>4, <1>v
  <2>2. CASE /\ StoreAt(c, "select")
             /\ \E o \in storeCalls[c].todo :
                  /\ cut' = cut \cup {o}
                  /\ storeCalls' = [storeCalls EXCEPT ![c] = Rest(@.op, @.todo \ {o})]
    <3>0. PICK o \in call.todo : /\ cut' = cut \cup {o}
                                 /\ storeCalls' = [storeCalls EXCEPT ![c] = Rest(@.op, @.todo \ {o})]
      BY <2>2
    <3>. SUFFICES ASSUME NEW CONSTANT new, new = Rest(call.op, call.todo \ {o})
                  PROVE  ObjectsOK' /\ CallsOK' /\ RowsMatchBucket' /\ DiscardOK'
      OBVIOUS
    <3>1. /\ call # NoStoreCall /\ call.pc = "select" /\ UNCHANGED <<objects, bucket, sessionEnd>>
          /\ storeCalls' = [storeCalls EXCEPT ![c] = new]
      BY <1>15, <2>2, <3>0 DEF CleanupFails, StoreAt
    <3>2. call.op \in CleanUps /\ call.todo \subseteq Ids /\ \A p \in call.todo : objects[p].row # "none"
      BY <3>1, <1>c
    <3>3. /\ new \in StoreCallTypes /\ RemovalOK(new) /\ (new = NoStoreCall \/ new.op # "put")
          /\ \A p \in call.todo \ {o} : ToClean(new, p)
      BY <3>2, <1>w
    <3>4. \A p : ToClean(call, p) => ToClean(new, p) \/ p \in cut'
      BY <3>0, <3>1, <3>3 DEF ToClean
    <3>. QED
      BY <3>0, <3>1, <3>3, <3>4, <1>v
  <2>. QED
    BY <1>15, <2>1, <2>2 DEF CleanupFails
<1>16. ASSUME NEW c \in StoreCalls, InterruptFails(c)
      PROVE  ObjectsOK' /\ CallsOK' /\ RowsMatchBucket' /\ DiscardOK'
  <2>. SUFFICES ASSUME NEW CONSTANT call, call = storeCalls[c]
                PROVE  ObjectsOK' /\ CallsOK' /\ RowsMatchBucket' /\ DiscardOK'
    OBVIOUS
  <2>1. /\ call.op = "interrupt" /\ call.pc \in {"list", "status", "clear"}
        /\ cut' = IF StoreAt(c, "list") THEN cut \cup ActiveTranscripts ELSE cut
        /\ storeCalls' = [storeCalls EXCEPT ![c] = NoStoreCall] /\ UNCHANGED <<objects, bucket, sessionEnd>>
    BY <1>16 DEF InterruptFails
  <2>2. call # NoStoreCall
    BY <2>1 DEF NoStoreCall
  <2>3. \A p \in Ids : IsTranscript(p) /\ objects[p].row = "active" /\ ToClean(call, p) => p \in cut'
    <3>1. CASE call.pc = "list"
      BY <2>1, <2>2, <3>1 DEF StoreAt, ActiveTranscripts
    <3>2. CASE call.pc # "list"
      <4>1. call.todo = {}
        <5>1. RemovalOK(call)
          BY <1>0
        <5>. QED
          BY <2>1, <2>2, <5>1 DEF RemovalOK
      <4>. QED
        BY <4>1, <2>1, <3>2 DEF ToClean
    <3>. QED
      BY <3>1, <3>2
  <2>4. cut \subseteq cut'
    BY <2>1
  <2>. QED
    BY <2>1, <2>3, <2>4, <1>n, <1>v
<1>17. ASSUME NEW c \in StoreCalls, SetInterrupted(c)
      PROVE  ObjectsOK' /\ CallsOK' /\ RowsMatchBucket' /\ DiscardOK'
  <2>. SUFFICES ASSUME NEW CONSTANT call, call = storeCalls[c], NEW CONSTANT new, new = [call EXCEPT !.pc = "clear"]
                PROVE  ObjectsOK' /\ CallsOK' /\ RowsMatchBucket' /\ DiscardOK'
    OBVIOUS
  <2>1. /\ call # NoStoreCall /\ call.pc = "status" /\ sessionEnd' = "interrupted"
        /\ storeCalls' = [storeCalls EXCEPT ![c] = new] /\ UNCHANGED <<objects, bucket, cut>>
    BY <1>17 DEF SetInterrupted, StoreAt
  <2>2. /\ call.op \in CleanUps /\ call.todo \subseteq Ids /\ \A p \in call.todo : objects[p].row # "none"
        /\ call.todo = {}
    <3>1. RemovalOK(call)
      BY <1>0
    <3>. QED
      BY <2>1, <3>1, <1>c, <1>n DEF RemovalOK
  <2>3. call \in [op : CleanUps, pc : {"list", "select", "status", "clear"}, todo : SUBSET Nat]
    <3>1. call \in StoreCallTypes
      BY <1>0
    <3>. QED
      BY <2>1, <3>1 DEF StoreCallTypes
  <2>4. new \in StoreCallTypes /\ new.op = call.op /\ new.todo = call.todo /\ new.pc = "clear"
    BY <2>3 DEF StoreCallTypes
  <2>5. RemovalOK(new) /\ new.op # "put"
    BY <2>2, <2>4, <1>n DEF RemovalOK
  <2>. QED
    BY <2>1, <2>4, <2>5, <1>v
<1>18. ASSUME NEW c \in StoreCalls, EndInterrupt(c)
      PROVE  ObjectsOK' /\ CallsOK' /\ RowsMatchBucket' /\ DiscardOK'
  <2>. SUFFICES ASSUME NEW CONSTANT call, call = storeCalls[c]
                PROVE  ObjectsOK' /\ CallsOK' /\ RowsMatchBucket' /\ DiscardOK'
    OBVIOUS
  <2>1. /\ call # NoStoreCall /\ call.pc = "clear" /\ UNCHANGED <<objects, bucket, sessionEnd, cut>>
        /\ storeCalls' = [storeCalls EXCEPT ![c] = NoStoreCall]
    BY <1>18 DEF EndInterrupt, StoreAt
  <2>2. \A p : ~ToClean(call, p)
    <3>1. call.todo = {}
      <4>1. RemovalOK(call) /\ call \in StoreCallTypes
        BY <1>0
      <4>. QED
        BY <2>1, <4>1, <1>n, StoreCallFields DEF RemovalOK
    <3>. QED
      BY <2>1, <3>1 DEF ToClean
  <2>. QED
    BY <2>1, <2>2, <1>n, <1>v
\* The process dies: what its calls had still to do is history.
<1>19. CASE StoreDies
  <2>1. /\ cut' = cut \cup UNION {Pending(storeCalls[c]) : c \in StoreCalls}
        /\ storeCalls' = [c \in StoreCalls |-> NoStoreCall] /\ UNCHANGED <<objects, bucket, sessionEnd>>
    BY <1>19 DEF StoreDies
  <2>2. CallsOK'
    BY <2>1, <1>n DEF NoStoreCall
  <2>3. ASSUME NEW op, NEW pc \in {"insert", "mark"}, NEW o \in Ids, Doing(op, pc, o) PROVE o \in cut'
    BY <2>1, <2>3 DEF Doing, Pending
  <2>4. RowsMatchBucket'
    <3>1. UNCHANGED <<objects, bucket>> /\ Ids' = Ids /\ cut \subseteq cut'
      BY <2>1 DEF Ids
    <3>. QED
      BY <2>3, <3>1, <1>0 DEF RowsMatchBucket
  <2>5. \A d \in StoreCalls : ~ArchivesTranscript(d)'
    BY <2>1 DEF ArchivesTranscript
  <2>6. ASSUME sessionEnd = "discarded", NEW o \in bucket, IsTranscript(o), objects[o].row = "active", o \notin cut'
        PROVE  FALSE
    <3>1. PICK d \in StoreCalls : ToClean(storeCalls[d], o)
      BY <1>0, <2>1, <2>6
    <3>2. o \in Pending(storeCalls[d])
      BY <1>0, <2>6, <3>1 DEF ToClean, Pending, ActiveTranscripts
    <3>. QED
      BY <2>1, <2>6, <3>2
  <2>7. DiscardOK'
    BY <2>1, <2>5, <2>6 DEF IsTranscript
  <2>. QED
    BY <2>1, <2>2, <2>4, <2>7, <1>u
<1>12. CASE UNCHANGED storeVars
  <2>1. UNCHANGED <<objects, bucket, sessionEnd, storeCalls, cut>>
    BY <1>12 DEF storeVars
  <2>. QED
    BY <2>1, <1>0, <1>u DEF RowsMatchBucket, Doing, ArchivesTranscript, IsTranscript, Ids
<1>. QED
  BY <1>1, <1>2, <1>3, <1>4, <1>5, <1>6, <1>7, <1>8, <1>9, <1>10, <1>11, <1>12, <1>13, <1>14, <1>15,
     <1>16, <1>17, <1>18, <1>19 DEF StoreNext

LEMMA StoreBegins == StoreInit => StoreShape /\ StoreInv
<1>. SUFFICES ASSUME StoreInit PROVE StoreShape /\ StoreInv
  OBVIOUS
<1>1. objects = <<>> /\ bucket = {} /\ sessionEnd = "open"
  BY DEF StoreInit
<1>2. objects \in Seq(StoreObjects) /\ Ids = {}
  BY <1>1, EmptySeq DEF Ids
<1>3. storeCalls \in [StoreCalls -> StoreCallTypes] /\ \A c \in StoreCalls : storeCalls[c] = NoStoreCall
  BY DEF StoreInit, StoreCallTypes
<1>4. PutOK(NoStoreCall) /\ RemovalOK(NoStoreCall)
  BY DEF PutOK, RemovalOK
<1>. QED
  BY <1>1, <1>2, <1>3, <1>4 DEF StoreShape, StoreInv, RowsMatchBucket

LEMMA StoreCorrect == StoreSpec => []BucketIsAccounted
\* A transcript that is left has a row that is active, and no one to clean it up.
<1>1. StoreShape /\ StoreInv => BucketIsAccounted
  <2>. SUFFICES ASSUME StoreShape, StoreInv PROVE BucketIsAccounted
    OBVIOUS
  <2>1. RowsMatchBucket /\ bucket \subseteq Ids
    BY DEF StoreShape, StoreInv
  <2>2. DiscardedKeepsNoFile
    <3>. SUFFICES ASSUME sessionEnd = "discarded", \A c \in StoreCalls : ~Cleans(c),
                         NEW o \in bucket, IsTranscript(o)
                  PROVE  o \in cut
      BY DEF DiscardedKeepsNoFile
    <3>1. objects[o].row \in RowStatuses
      <4>1. o \in 1..Len(objects)
        BY <2>1, LenProperties DEF Ids, StoreShape
      <4>2. objects[o] \in StoreObjects
        BY <4>1, ElementOfSeq DEF StoreShape
      <4>. QED
        BY <4>2 DEF StoreObjects
    <3>2. ASSUME objects[o].row = "none" PROVE o \in cut
      BY <3>2, <2>1 DEF RowsMatchBucket, Doing, StoreInv, ArchivesTranscript
    <3>3. ASSUME objects[o].row = "active" PROVE o \in cut
      BY <3>3 DEF StoreInv, ToClean, Cleans
    <3>. QED
      BY <3>1, <3>2, <3>3, <2>1 DEF RowStatuses, RowsMatchBucket
  <2>. QED
    BY <2>1, <2>2 DEF BucketIsAccounted
<1>. QED
  BY <1>1, StoreBegins, StoreStep, PTL DEF StoreSpec

\* What was cut is an object there is, as is what a call is at.
StoreMore ==
    /\ sessionEnd \in {"open", "saved", "discarded", "interrupted"} /\ live \in {"live", "closed", "gone"}
    /\ cut \subseteq Ids

LEMMA CallKnowsObject ==
    ASSUME StoreShape, StoreInv, NEW c \in StoreCalls, storeCalls[c] # NoStoreCall
    PROVE  /\ storeCalls[c].pc \in {"put", "insert", "remove", "mark"} => storeCalls[c].object \in Ids
           /\ storeCalls[c].op \in CleanUps => storeCalls[c].todo \subseteq Ids
<1>1. PutOK(storeCalls[c]) /\ RemovalOK(storeCalls[c])
  BY DEF StoreInv
<1>2. storeCalls[c] \in StoreCallTypes
  BY DEF StoreShape
<1>3. storeCalls[c].op = "put" => storeCalls[c].object \in Ids
  BY <1>1 DEF PutOK
<1>4. storeCalls[c].op # "put" /\ storeCalls[c].pc \in {"remove", "mark"} => storeCalls[c].object \in Ids
  BY <1>1 DEF RemovalOK
<1>5. storeCalls[c].op \in CleanUps => storeCalls[c].todo \subseteq Ids
  BY <1>1 DEF RemovalOK, CleanUps
<1>. QED
  BY <1>2, <1>3, <1>4, <1>5, StoreCallFields

LEMMA StoreMoreStep == StoreShape /\ StoreInv /\ StoreMore /\ [StoreNext]_storeVars => StoreMore'
<1>. SUFFICES ASSUME StoreShape, StoreInv, StoreMore, [StoreNext]_storeVars PROVE StoreMore'
  OBVIOUS
<1>1. Ids \subseteq Ids'
  <2>1. \/ UNCHANGED objects
        \/ \E owner \in OwnerTypes : objects' = Append(objects, [row |-> "none", owner |-> owner])
        \/ \E o, row : objects' = [objects EXCEPT ![o] = row]
    BY DEF StoreNext, storeVars, Save, StartPut, StartArchive, Put, StartDelete, PutObject, InsertObject,
           StartDiscard, StartInterrupt, ListTranscripts, CleanupSelects, RemoveObject, MarkDeleted,
           SetInterrupted, EndInterrupt, StoreFails, CleanupFails, InterruptFails, StoreDies, SetRow, OwnerTypes
  <2>2. ASSUME NEW owner \in OwnerTypes, objects' = Append(objects, [row |-> "none", owner |-> owner])
        PROVE  Ids \subseteq Ids'
    <3>1. [row |-> "none", owner |-> owner] \in StoreObjects
      BY DEF StoreObjects, RowStatuses
    <3>2. objects' \in Seq(StoreObjects) /\ Len(objects') = Len(objects) + 1
      BY <2>2, <3>1, AppendProperties DEF StoreShape
    <3>3. DOMAIN objects = 1..Len(objects) /\ DOMAIN objects' = 1..Len(objects') /\ Len(objects) \in Nat
      BY <3>2, LenProperties DEF StoreShape
    <3>. QED
      BY <3>2, <3>3 DEF Ids
  <2>. QED
    BY <2>1, <2>2 DEF Ids
<1>2. cut' \subseteq cut \cup Ids
  <2>1. ASSUME NEW c \in StoreCalls, StoreFails(c) PROVE cut' \subseteq cut \cup Ids
    BY <2>1, CallKnowsObject DEF StoreFails
  <2>2. ASSUME NEW c \in StoreCalls, CleanupFails(c) PROVE cut' \subseteq cut \cup Ids
    <3>1. storeCalls[c] # NoStoreCall => (StoreAt(c, "select") => storeCalls[c].todo \subseteq Ids)
      <4>1. storeCalls[c] \in StoreCallTypes
        BY DEF StoreShape
      <4>. QED
        BY <4>1, StoreCallFields, CallKnowsObject DEF StoreAt
    <3>. QED
      BY <2>2, <3>1 DEF CleanupFails, StoreAt, ActiveTranscripts
  <2>3. ASSUME NEW c \in StoreCalls, InterruptFails(c) PROVE cut' \subseteq cut \cup Ids
    BY <2>3 DEF InterruptFails, ActiveTranscripts
  <2>4. ASSUME StoreDies PROVE cut' \subseteq cut \cup Ids
    BY <2>4 DEF StoreDies, Pending
  <2>5. \/ \E c \in StoreCalls : StoreFails(c) \/ CleanupFails(c) \/ InterruptFails(c)
        \/ StoreDies \/ UNCHANGED cut
    BY DEF StoreNext, storeVars, Save, StartPut, StartArchive, StartDelete, PutObject, InsertObject,
           StartDiscard, StartInterrupt, ListTranscripts, CleanupSelects, RemoveObject, MarkDeleted,
           SetInterrupted, EndInterrupt
  <2>. QED
    BY <2>1, <2>2, <2>3, <2>4, <2>5
<1>3. sessionEnd' \in {sessionEnd, "saved", "discarded", "interrupted"} /\ live' \in {live, "closed", "gone"}
  BY DEF StoreNext, storeVars, Save, StartPut, StartArchive, StartDelete, PutObject, InsertObject,
         StartDiscard, StartInterrupt, ListTranscripts, CleanupSelects, RemoveObject, MarkDeleted,
         SetInterrupted, EndInterrupt, StoreFails, CleanupFails, InterruptFails, StoreDies
<1>. QED
  BY <1>1, <1>2, <1>3 DEF StoreMore

LEMMA StoreTyped == StoreSpec => []StoreTypeOK
<1>1. StoreInit => StoreMore
  BY DEF StoreInit, StoreMore
<1>2. StoreShape /\ StoreInv /\ StoreMore => StoreTypeOK
  <2>. SUFFICES ASSUME StoreShape, StoreInv, StoreMore PROVE StoreTypeOK
    OBVIOUS
  <2>1. ASSUME NEW c \in StoreCalls, NEW call \in StoreCallTypes, call = storeCalls[c]
        PROVE  call \in {NoStoreCall}
                 \cup [op : {"put"}, pc : {"put", "insert"}, object : Ids]
                 \cup [op : {"delete"}, pc : {"remove", "mark"}, object : Ids]
                 \cup [op : CleanUps, pc : {"list", "select", "status", "clear"}, todo : SUBSET Ids]
                 \cup [op : CleanUps, pc : {"remove", "mark"}, object : Ids, todo : SUBSET Ids]
    <3>1. call # NoStoreCall =>
            /\ call.pc \in {"put", "insert", "remove", "mark"} => call.object \in Ids
            /\ call.op \in CleanUps => call.todo \subseteq Ids
      BY <2>1, CallKnowsObject
    <3>. QED
      BY <3>1 DEF StoreCallTypes
  <2>2. \A c \in StoreCalls : storeCalls[c] \in StoreCallTypes
    BY DEF StoreShape
  <2>. QED
    BY <2>1, <2>2 DEF StoreTypeOK, StoreShape, StoreMore, StoreObjects
<1>. QED
  BY <1>1, <1>2, StoreBegins, StoreStep, StoreMoreStep, PTL DEF StoreSpec

-----------------------------------------------------------------------------
(* Redis: the list is the end of what was pushed, and grows past the window by   *)
(* the pushes that have not trimmed it yet.                                   *)

RedisCallTypes == [pc : {"none", "push", "trim", "expire"}]
                  \cup [pc : {"del"}, keys : SUBSET {"context", "cooldown"}]

RedisShape ==
    /\ context \in Seq(Nat) /\ pushedSince \in Seq(Nat)
    /\ redisCalls \in [RedisCalls -> RedisCallTypes]
    /\ abandoned \in {0, 1} /\ cleared \in {"no", "begun", "done", "overlapped"}

Trimming == {c \in RedisCalls : redisCalls[c].pc = "trim"}
Removing == {c \in RedisCalls : redisCalls[c].pc = "del"}

\* The i-th element from the end is the same.
EndsWith(s, t) == Len(s) <= Len(t) /\ \A i \in 1..Len(s) : s[Len(s) - i + 1] = t[Len(t) - i + 1]

RedisInv ==
    /\ EndsWith(context, pushedSince)
    /\ Len(context) <= Window + Cardinality(Trimming) + abandoned
    /\ context # <<>> /\ ~expires
         => abandoned > 0 \/ \E c \in RedisCalls : redisCalls[c].pc \in {"trim", "expire"}
    /\ \A c, d \in Removing : c = d
    /\ cleared \in {"no", "done"} => Removing = {}
    /\ cleared \in {"begun", "done"} => Pushing = {}
    /\ cleared = "begun" /\ context # <<>> => \A c \in Removing : "context" \in redisCalls[c].keys
    /\ cleared = "begun" => Removing # {}
    /\ cleared = "done" => context = <<>>

LEMMA MaxOfTwo ==
    ASSUME NEW x \in Int, NEW y \in Int
    PROVE  Max({x, y}) \in {x, y} /\ Max({x, y}) >= x /\ Max({x, y}) >= y
<1>1. \E z \in {x, y} : \A w \in {x, y} : z >= w
  <2>1. CASE x >= y
    BY <2>1
  <2>2. CASE y >= x
    BY <2>2
  <2>. QED
    BY <2>1, <2>2
<1>2. Max({x, y}) \in {x, y} /\ \A w \in {x, y} : Max({x, y}) >= w
  BY <1>1 DEF Max
<1>. QED
  BY <1>2

\* A trim keeps the end of the list, and no more of it than the window.
LEMMA TrimKeepsEnd ==
    ASSUME NEW s \in Seq(Nat), NEW k \in Nat \ {0}, NEW m \in Int,
           m = 1 \/ m = Len(s) - k + 1, m >= 1, m >= Len(s) - k + 1
    PROVE  /\ SubSeq(s, m, Len(s)) \in Seq(Nat) /\ Len(SubSeq(s, m, Len(s))) <= k
           /\ EndsWith(SubSeq(s, m, Len(s)), s)
           /\ SubSeq(s, m, Len(s)) = <<>> <=> s = <<>>
<1>1. Len(s) \in Nat
  BY LenProperties
<1>2. m \in Int /\ m >= 1 /\ m <= Len(s) + 1
  BY <1>1
<1>. SUFFICES ASSUME NEW r, r = SubSeq(s, m, Len(s))
              PROVE  r \in Seq(Nat) /\ Len(r) <= k /\ EndsWith(r, s) /\ (r = <<>> <=> s = <<>>)
  OBVIOUS
<1>3. r \in Seq(Nat) /\ Len(r) = Len(s) - m + 1 /\ \A i \in 1..(Len(s) - m + 1) : r[i] = s[m + i - 1]
  <2>1. r \in Seq(Nat)
    BY <1>1, <1>2
  <2>2. Len(r) = IF m <= Len(s) THEN Len(s) - m + 1 ELSE 0
    BY <1>1, <1>2
  <2>3. \A i \in 1..(Len(s) - m + 1) : r[i] = s[m + i - 1]
    BY <1>1, <1>2
  <2>4. CASE m <= Len(s)
    BY <2>1, <2>2, <2>3, <2>4
  <2>5. CASE m = Len(s) + 1
    BY <2>1, <2>2, <2>3, <2>5, <1>1
  <2>. QED
    BY <2>4, <2>5, <1>1, <1>2
<1>4. EndsWith(r, s)
  <2>1. Len(r) <= Len(s)
    BY <1>1, <1>2, <1>3
  <2>2. ASSUME NEW i \in 1..Len(r) PROVE r[Len(r) - i + 1] = s[Len(s) - i + 1]
    <3>1. Len(r) - i + 1 \in 1..(Len(s) - m + 1) /\ m + (Len(r) - i + 1) - 1 = Len(s) - i + 1
      BY <1>1, <1>2, <1>3
    <3>2. r[Len(r) - i + 1] = s[m + (Len(r) - i + 1) - 1]
      BY <3>1, <1>3
    <3>. QED
      BY <3>1, <3>2
  <2>. QED
    BY <2>1, <2>2 DEF EndsWith
<1>5. \A t \in Seq(Nat) : t = <<>> <=> Len(t) = 0
  BY EmptySeq
<1>6. Len(r) = 0 <=> Len(s) = 0
  BY <1>1, <1>2, <1>3
<1>7. Len(r) <= k
  BY <1>1, <1>2, <1>3
<1>. QED
  BY <1>3, <1>4, <1>5, <1>6, <1>7

LEMMA EndsWithIsSuffix ==
    ASSUME NEW s \in Seq(Nat), NEW t \in Seq(Nat), EndsWith(s, t)
    PROVE  IsSuffix(s, t)
<1>1. Len(s) \in Nat /\ Len(t) \in Nat /\ DOMAIN s = 1..Len(s) /\ DOMAIN t = 1..Len(t)
  BY LenProperties
<1>2. /\ Reverse(s) \in Seq(Nat) /\ Len(Reverse(s)) = Len(s)
      /\ \A i \in 1..Len(s) : Reverse(s)[i] = s[Len(s) - i + 1] /\ Reverse(s)[i] \in Nat
  <2>1. \A i \in 1..Len(s) : s[Len(s) - i + 1] \in Nat
    BY <1>1, ElementOfSeq
  <2>2. Reverse(s) = [i \in 1..Len(s) |-> s[Len(s) - i + 1]]
    BY DEF Reverse
  <2>. QED
    BY <1>1, <2>1, <2>2, IsASeq
<1>3. /\ Reverse(t) \in Seq(Nat) /\ Len(Reverse(t)) = Len(t)
      /\ \A i \in 1..Len(t) : Reverse(t)[i] = t[Len(t) - i + 1] /\ Reverse(t)[i] \in Nat
  <2>1. \A i \in 1..Len(t) : t[Len(t) - i + 1] \in Nat
    BY <1>1, ElementOfSeq
  <2>2. Reverse(t) = [i \in 1..Len(t) |-> t[Len(t) - i + 1]]
    BY DEF Reverse
  <2>. QED
    BY <1>1, <2>1, <2>2, IsASeq
<1>. DEFINE a == SubSeq(Reverse(s), 1, Len(s))
            b == SubSeq(Reverse(t), 1, Len(s))
<1>4. Len(s) <= Len(t) /\ \A i \in 1..Len(s) : Reverse(s)[i] = Reverse(t)[i]
  BY <1>1, <1>2, <1>3 DEF EndsWith
<1>5. a \in Seq(Nat) /\ Len(a) = Len(s) /\ \A i \in 1..Len(s) : a[i] = Reverse(s)[i]
  <2>1. /\ a \in Seq(Nat) /\ Len(a) = IF 1 <= Len(s) THEN Len(s) - 1 + 1 ELSE 0
        /\ \A i \in 1..(Len(s) - 1 + 1) : a[i] = Reverse(s)[1 + i - 1]
    BY <1>1, <1>2, SubSeqProperties
  <2>. QED
    BY <2>1, <1>1
<1>6. b \in Seq(Nat) /\ Len(b) = Len(s) /\ \A i \in 1..Len(s) : b[i] = Reverse(t)[i]
  <2>0. \A i \in 1..Len(s) : Reverse(t)[i] \in Nat
    BY <1>1, <1>3, <1>4
  <2>1. /\ b \in Seq(Nat) /\ Len(b) = IF 1 <= Len(s) THEN Len(s) - 1 + 1 ELSE 0
        /\ \A i \in 1..(Len(s) - 1 + 1) : b[i] = Reverse(t)[1 + i - 1]
    BY <1>1, <2>0, SubSeqProperties
  <2>. QED
    BY <2>1, <1>1
<1>7. a = b
  <2>1. \A i \in 1..Len(a) : a[i] = b[i]
    BY <1>4, <1>5, <1>6
  <2>. QED
    BY <2>1, <1>5, <1>6, SeqEqual
<1>. QED
  BY <1>2, <1>3, <1>4, <1>7 DEF IsSuffix, IsPrefix

LEMMA EndsWithAppend ==
    ASSUME NEW s \in Seq(Nat), NEW t \in Seq(Nat), EndsWith(s, t), NEW n \in Nat
    PROVE  EndsWith(Append(s, n), Append(t, n))
<1>. SUFFICES ASSUME NEW l, l = Len(s), NEW k, k = Len(t),
                     NEW s1, s1 = Append(s, n), NEW t1, t1 = Append(t, n)
              PROVE  EndsWith(s1, t1)
  OBVIOUS
<1>1. l \in Nat /\ k \in Nat /\ l <= k /\ \A i \in 1..l : s[l - i + 1] = t[k - i + 1]
  BY LenProperties DEF EndsWith
<1>2. Len(s1) = l + 1 /\ (\A i \in 1..l : s1[i] = s[i]) /\ s1[l + 1] = n
  BY AppendProperties
<1>3. Len(t1) = k + 1 /\ (\A i \in 1..k : t1[i] = t[i]) /\ t1[k + 1] = n
  BY AppendProperties
<1>4. ASSUME NEW i \in 1..(l + 1) PROVE s1[l + 1 - i + 1] = t1[k + 1 - i + 1]
  <2>1. CASE i = 1
    <3>1. l + 1 - i + 1 = l + 1 /\ k + 1 - i + 1 = k + 1
      BY <2>1, <1>1
    <3>. QED
      BY <3>1, <1>2, <1>3
  <2>2. CASE i # 1
    <3>0. l \in Nat /\ k \in Nat /\ l <= k /\ i \in Nat /\ i >= 2 /\ i <= l + 1
      BY <2>2, <1>1
    <3>1. /\ i - 1 \in 1..l /\ l - (i - 1) + 1 \in 1..l /\ k - (i - 1) + 1 \in 1..k
          /\ l + 1 - i + 1 = l - (i - 1) + 1 /\ k + 1 - i + 1 = k - (i - 1) + 1
      BY <3>0
    <3>2. s[l - (i - 1) + 1] = t[k - (i - 1) + 1]
      BY <3>1, <1>1
    <3>. QED
      BY <3>1, <3>2, <1>2, <1>3
  <2>. QED
    BY <2>1, <2>2
<1>. QED
  BY <1>1, <1>2, <1>3, <1>4 DEF EndsWith

LEMMA EndsWithTransitive ==
    ASSUME NEW r \in Seq(Nat), NEW s \in Seq(Nat), NEW t \in Seq(Nat), EndsWith(r, s), EndsWith(s, t)
    PROVE  EndsWith(r, t)
<1>1. Len(r) \in Nat /\ Len(s) \in Nat /\ Len(t) \in Nat
  BY LenProperties
<1>2. Len(r) <= Len(s) /\ Len(s) <= Len(t)
  BY DEF EndsWith
<1>3. ASSUME NEW i \in 1..Len(r) PROVE r[Len(r) - i + 1] = t[Len(t) - i + 1]
  <2>1. i \in 1..Len(s)
    BY <1>1, <1>2
  <2>2. r[Len(r) - i + 1] = s[Len(s) - i + 1]
    BY DEF EndsWith
  <2>3. s[Len(s) - i + 1] = t[Len(t) - i + 1]
    BY <2>1 DEF EndsWith
  <2>. QED
    BY <2>2, <2>3
<1>. QED
  BY <1>1, <1>2, <1>3 DEF EndsWith

LEMMA RedisStep == RedisShape /\ RedisInv /\ [RedisNext]_redisVars => RedisShape' /\ RedisInv'
<1>. SUFFICES ASSUME RedisShape, RedisInv, [RedisNext]_redisVars PROVE RedisShape' /\ RedisInv'
  OBVIOUS
<1>. DEFINE ListOK == /\ context \in Seq(Nat) /\ pushedSince \in Seq(Nat) /\ EndsWith(context, pushedSince)
                      /\ abandoned \in {0, 1} /\ Len(context) <= Window + Cardinality(Trimming) + abandoned
            ExpiryOK == context # <<>> /\ ~expires
                          => abandoned > 0 \/ \E c \in RedisCalls : redisCalls[c].pc \in {"trim", "expire"}
            ClearOK == /\ cleared \in {"no", "begun", "done", "overlapped"}
                       /\ \A c, d \in Removing : c = d
                       /\ cleared \in {"no", "done"} => Removing = {}
                       /\ cleared \in {"begun", "done"} => Pushing = {}
                       /\ cleared = "begun" /\ context # <<>>
                            => \A c \in Removing : "context" \in redisCalls[c].keys
                       /\ cleared = "begun" => Removing # {}
                       /\ cleared = "done" => context = <<>>
            CallsOK == redisCalls \in [RedisCalls -> RedisCallTypes]
<1>0. ListOK /\ ExpiryOK /\ ClearOK /\ CallsOK
  BY DEF RedisShape, RedisInv
<1>q. SUFFICES ListOK' /\ ExpiryOK' /\ ClearOK' /\ CallsOK'
  BY DEF RedisShape, RedisInv
<1>l. /\ Len(context) \in Nat /\ Len(pushedSince) \in Nat /\ Window \in Nat \ {0}
      /\ IsFiniteSet(Trimming) /\ Cardinality(Trimming) \in Nat
  <2>1. Trimming \subseteq RedisCalls
    BY DEF Trimming
  <2>2. IsFiniteSet(Trimming)
    BY <2>1, RedisAssumption, FS_Subset
  <2>. QED
    BY <2>2, <1>0, RedisAssumption, FS_CardinalityType, LenProperties
<1>t. /\ IdleRedis \in RedisCallTypes /\ IdleRedis.pc = "none"
      /\ \A pc \in {"push", "trim", "expire"} : [pc |-> pc] \in RedisCallTypes
      /\ \A keys \in SUBSET {"context", "cooldown"} : [pc |-> "del", keys |-> keys] \in RedisCallTypes
      /\ \A call \in RedisCallTypes : call.pc \in {"none", "push", "trim", "expire", "del"}
  BY DEF IdleRedis, RedisCallTypes
\* A call moves from one of its steps to another.
<1>m. ASSUME NEW c \in RedisCalls, NEW call \in RedisCallTypes, redisCalls' = [redisCalls EXCEPT ![c] = call]
      PROVE  /\ CallsOK' /\ redisCalls'[c] = call
             /\ \A d \in RedisCalls : d # c => redisCalls'[d] = redisCalls[d]
             /\ redisCalls[c].pc # "trim" /\ call.pc # "trim" => Trimming' = Trimming
             /\ redisCalls[c].pc # "trim" /\ call.pc = "trim"
                  => Cardinality(Trimming)' = Cardinality(Trimming) + 1
             /\ redisCalls[c].pc = "trim" /\ call.pc # "trim"
                  => Cardinality(Trimming)' = Cardinality(Trimming) - 1
             /\ call.pc # "del" => Removing' = Removing \ {c}
             /\ call.pc \notin {"push", "trim", "expire"} => Pushing' = Pushing \ {c}
             /\ redisCalls[c].pc \in {"push", "trim", "expire"} /\ call.pc \in {"push", "trim", "expire"}
                  => Pushing' = Pushing
  <2>1. CallsOK' /\ redisCalls'[c] = call /\ \A d \in RedisCalls : d # c => redisCalls'[d] = redisCalls[d]
    BY <1>m, <1>0
  <2>2. redisCalls[c].pc # "trim" /\ call.pc # "trim" => Trimming' = Trimming
    BY <2>1 DEF Trimming
  <2>3. redisCalls[c].pc # "trim" /\ call.pc = "trim" => Trimming' = Trimming \cup {c} /\ c \notin Trimming
    BY <2>1 DEF Trimming
  <2>4. redisCalls[c].pc = "trim" /\ call.pc # "trim" => Trimming' = Trimming \ {c} /\ c \in Trimming
    BY <2>1 DEF Trimming
  <2>5. Cardinality(Trimming \cup {c}) = IF c \in Trimming THEN Cardinality(Trimming) ELSE Cardinality(Trimming) + 1
    BY <1>l, FS_AddElement
  <2>6. Cardinality(Trimming \ {c}) = IF c \in Trimming THEN Cardinality(Trimming) - 1 ELSE Cardinality(Trimming)
    BY <1>l, FS_RemoveElement
  <2>7. /\ call.pc # "del" => Removing' = Removing \ {c}
        /\ call.pc \notin {"push", "trim", "expire"} => Pushing' = Pushing \ {c}
        /\ redisCalls[c].pc \in {"push", "trim", "expire"} /\ call.pc \in {"push", "trim", "expire"}
             => Pushing' = Pushing
    BY <2>1 DEF Removing, Pushing
  <2>. QED
    BY <2>1, <2>2, <2>3, <2>4, <2>5, <2>6, <2>7
<1>1. ASSUME NEW c \in RedisCalls, StartPush(c) PROVE ListOK' /\ ExpiryOK' /\ ClearOK' /\ CallsOK'
  <2>. DEFINE call == [pc |-> "push"]
  <2>1. /\ cleared \in {"no", "begun"} /\ redisCalls[c].pc = "none"
        /\ redisCalls' = [redisCalls EXCEPT ![c] = call]
        /\ cleared' = IF cleared = "begun" THEN "overlapped" ELSE cleared
        /\ UNCHANGED <<context, expires, cooldown, pushedSince, abandoned>>
    BY <1>1 DEF StartPush, RedisBegin, RedisAt, RedisGo
  <2>2. call \in RedisCallTypes /\ call.pc = "push"
    BY <1>t
  <2>3. /\ CallsOK' /\ \A d \in RedisCalls : d # c => redisCalls'[d] = redisCalls[d]
        /\ Trimming' = Trimming /\ Removing' = Removing \ {c}
    BY <2>1, <2>2, <1>m
  <2>4. ListOK'
    BY <2>1, <2>3, <1>0
  <2>5. ExpiryOK'
    BY <2>1, <2>3, <1>0
  <2>6. ClearOK'
    <3>1. cleared' \in {"no", "overlapped"} /\ (cleared' = "no" => cleared = "no")
      BY <2>1
    <3>. QED
      BY <3>1, <2>3, <1>0
  <2>. QED
    BY <2>3, <2>4, <2>5, <2>6
<1>2. ASSUME NEW c \in RedisCalls, PushContext(c) PROVE ListOK' /\ ExpiryOK' /\ ClearOK' /\ CallsOK'
  <2>. DEFINE call == [pc |-> "trim"]
  <2>1. PICK n \in 1..MaxPushes : context' = Append(context, n) /\ pushedSince' = Append(pushedSince, n)
    BY <1>2 DEF PushContext
  <2>2. /\ redisCalls[c].pc = "push" /\ redisCalls' = [redisCalls EXCEPT ![c] = call]
        /\ UNCHANGED <<expires, cooldown, abandoned, cleared>>
    BY <1>2 DEF PushContext, RedisAt, RedisGo
  <2>3. call \in RedisCallTypes /\ call.pc = "trim"
    BY <1>t
  <2>4. /\ CallsOK' /\ redisCalls'[c] = call /\ Cardinality(Trimming)' = Cardinality(Trimming) + 1
        /\ Removing' = Removing \ {c} /\ Pushing' = Pushing
        /\ \A d \in RedisCalls : d # c => redisCalls'[d] = redisCalls[d]
    BY <2>2, <2>3, <1>m
  <2>5. n \in Nat
    BY <2>1, RedisAssumption
  <2>6. /\ context' \in Seq(Nat) /\ Len(context') = Len(context) + 1
        /\ \A i \in 1..Len(context) : context'[i] = context[i]
        /\ context'[Len(context) + 1] = n
    BY <2>1, <2>5, <1>0, AppendProperties
  <2>7. /\ pushedSince' \in Seq(Nat) /\ Len(pushedSince') = Len(pushedSince) + 1
        /\ \A i \in 1..Len(pushedSince) : pushedSince'[i] = pushedSince[i]
        /\ pushedSince'[Len(pushedSince) + 1] = n
    BY <2>1, <2>5, <1>0, AppendProperties
  <2>8. EndsWith(context', pushedSince')
    <3>1. \A k \in Nat : EndsWith(Append(context, k), Append(pushedSince, k))
      BY <1>0, EndsWithAppend
    <3>. QED
      BY <3>1, <2>1, <2>5
  <2>9. ListOK'
    BY <2>2, <2>4, <2>6, <2>7, <2>8, <1>0, <1>l, SMTT(40)
  <2>10. ExpiryOK'
    BY <2>3, <2>4
  <2>11. c \in Pushing
    BY <2>2 DEF Pushing
  <2>12. ClearOK'
    BY <2>2, <2>4, <2>11, <1>0
  <2>. QED
    BY <2>4, <2>9, <2>10, <2>12
<1>3. ASSUME NEW c \in RedisCalls, Trim(c) PROVE ListOK' /\ ExpiryOK' /\ ClearOK' /\ CallsOK'
  <2>. DEFINE call == [pc |-> "expire"]
  <2>1. /\ redisCalls[c].pc = "trim" /\ redisCalls' = [redisCalls EXCEPT ![c] = call]
        /\ context' = SubSeq(context, Max({1, Len(context) - Window + 1}), Len(context))
        /\ UNCHANGED <<expires, cooldown, pushedSince, abandoned, cleared>>
    BY <1>3 DEF Trim, RedisAt, RedisGo
  <2>2. call \in RedisCallTypes /\ call.pc = "expire"
    BY <1>t
  <2>3. /\ CallsOK' /\ redisCalls'[c] = call /\ Cardinality(Trimming)' = Cardinality(Trimming) - 1
        /\ Removing' = Removing \ {c} /\ Pushing' = Pushing
        /\ \A d \in RedisCalls : d # c => redisCalls'[d] = redisCalls[d]
    BY <2>1, <2>2, <1>m
  <2>4. /\ context' \in Seq(Nat) /\ Len(context') <= Window /\ EndsWith(context', context)
        /\ context' = <<>> <=> context = <<>>
    <3>w. Window \in Nat \ {0}
      BY <1>l
    <3>0. ASSUME NEW s \in Seq(Nat), NEW m \in Int,
                 m = 1 \/ m = Len(s) - Window + 1, m >= 1, m >= Len(s) - Window + 1
          PROVE  /\ SubSeq(s, m, Len(s)) \in Seq(Nat) /\ Len(SubSeq(s, m, Len(s))) <= Window
                 /\ EndsWith(SubSeq(s, m, Len(s)), s)
                 /\ SubSeq(s, m, Len(s)) = <<>> <=> s = <<>>
      <4>1. SubSeq(s, m, Len(s)) \in Seq(Nat)
        BY <3>w, <3>0, TrimKeepsEnd
      <4>2. Len(SubSeq(s, m, Len(s))) <= Window
        BY <3>w, <3>0, TrimKeepsEnd
      <4>3. EndsWith(SubSeq(s, m, Len(s)), s)
        BY <3>w, <3>0, TrimKeepsEnd
      <4>4. SubSeq(s, m, Len(s)) = <<>> <=> s = <<>>
        BY <3>w, <3>0, TrimKeepsEnd
      <4>. QED
        BY <4>1, <4>2, <4>3, <4>4
    <3>. SUFFICES ASSUME NEW CONSTANT s, s = context, NEW CONSTANT m, m = Max({1, Len(s) - Window + 1})
                  PROVE  /\ context' \in Seq(Nat) /\ Len(context') <= Window /\ EndsWith(context', s)
                         /\ context' = <<>> <=> s = <<>>
      OBVIOUS
    <3>1. s \in Seq(Nat) /\ Len(s) - Window + 1 \in Int /\ 1 \in Int /\ Window \in Nat \ {0}
      BY <1>0, <1>l
    <3>2. m \in {1, Len(s) - Window + 1} /\ m >= 1 /\ m >= Len(s) - Window + 1
      BY <3>1, MaxOfTwo
    <3>4. m \in Int /\ (m = 1 \/ m = Len(s) - Window + 1)
      BY <3>1, <3>2
    <3>3. context' = SubSeq(s, m, Len(s))
      BY <2>1
    <3>. QED
      BY <3>0, <3>1, <3>2, <3>3, <3>4
  <2>5. EndsWith(context', pushedSince')
    <3>1. \A r \in Seq(Nat) : EndsWith(r, context) => EndsWith(r, pushedSince)
      BY <1>0, EndsWithTransitive
    <3>. QED
      BY <3>1, <2>1, <2>4
  <2>6. Cardinality(Trimming)' \in Nat
    <3>1. c \in Trimming
      BY <2>1 DEF Trimming
    <3>2. Cardinality(Trimming) # 0
      BY <3>1, <1>l, FS_EmptySet
    <3>. QED
      BY <3>2, <2>3, <1>l
  <2>7. ListOK'
    <3>1. abandoned' \in {0, 1} /\ pushedSince' \in Seq(Nat)
      BY <2>1, <1>0
    <3>2. Len(context') \in Nat
      BY <2>4, LenProperties
    <3>3. Len(context') <= Window + Cardinality(Trimming)' + abandoned'
      BY <3>1, <3>2, <2>4, <2>6, <1>l
    <3>. QED
      BY <3>1, <3>3, <2>4, <2>5
  <2>8. ExpiryOK'
    BY <2>2, <2>3
  <2>9. c \in Pushing
    BY <2>1 DEF Pushing
  <2>10. ClearOK'
    BY <2>1, <2>3, <2>9, <1>0
  <2>. QED
    BY <2>3, <2>7, <2>8, <2>10
\* Removing the list empties all that is said of it.
<1>r. ASSUME RemoveContext, Cardinality(Trimming)' \in Nat PROVE ListOK' /\ ExpiryOK' /\ context' = <<>>
  <2>1. context' = <<>> /\ pushedSince' = <<>> /\ abandoned' = 0
    BY <1>r DEF RemoveContext
  <2>2. <<>> \in Seq(Nat) /\ Len(<<>>) = 0
    BY EmptySeq
  <2>3. EndsWith(<<>>, <<>>)
    BY <2>2 DEF EndsWith
  <2>4. ListOK'
    BY <2>1, <2>2, <2>3, <1>r, <1>l
  <2>. QED
    BY <2>1, <2>4
<1>4. ASSUME NEW c \in RedisCalls, Expire(c) PROVE ListOK' /\ ExpiryOK' /\ ClearOK' /\ CallsOK'
  <2>1. /\ redisCalls[c].pc = "expire" /\ redisCalls' = [redisCalls EXCEPT ![c] = IdleRedis]
        /\ expires' = (context # <<>>) /\ UNCHANGED <<context, cooldown, pushedSince, abandoned, cleared>>
    BY <1>4 DEF Expire, RedisAt, RedisGo
  <2>2. IdleRedis \in RedisCallTypes /\ IdleRedis.pc = "none"
    BY <1>t
  <2>3. CallsOK' /\ Trimming' = Trimming /\ Removing' = Removing \ {c} /\ Pushing' = Pushing \ {c}
    BY <2>1, <2>2, <1>m
  <2>4. c \notin Removing
    BY <2>1 DEF Removing
  <2>5. \A d \in RedisCalls : d # c => redisCalls'[d] = redisCalls[d]
    BY <2>1, <1>0
  <2>6. ListOK'
    BY <2>1, <2>3, <1>0
  <2>7. ClearOK'
    <3>1. Removing' = Removing /\ \A d \in Removing : redisCalls'[d] = redisCalls[d]
      BY <2>3, <2>4, <2>5 DEF Removing
    <3>. QED
      BY <3>1, <2>1, <2>3, <1>0
  <2>. QED
    BY <2>1, <2>3, <2>6, <2>7
<1>5. ASSUME NEW c \in RedisCalls, ListKeys(c) PROVE ListOK' /\ ExpiryOK' /\ ClearOK' /\ CallsOK'
  <2>. SUFFICES ASSUME NEW CONSTANT keys,
                       keys = {k \in {"context", "cooldown"} :
                                 IF k = "context" THEN context # <<>> ELSE cooldown}
                PROVE  ListOK' /\ ExpiryOK' /\ ClearOK' /\ CallsOK'
    OBVIOUS
  <2>. DEFINE call == [pc |-> "del", keys |-> keys]
  <2>1. /\ redisCalls[c].pc = "none" /\ redisCalls' = [redisCalls EXCEPT ![c] = call]
        /\ cleared = "no" /\ cleared' = IF Pushing = {} THEN "begun" ELSE "overlapped"
        /\ UNCHANGED <<context, expires, cooldown, pushedSince, abandoned>>
    BY <1>5 DEF ListKeys, RedisBegin, RedisAt, RedisGo
  <2>2. call \in RedisCallTypes /\ call.pc = "del" /\ call.keys = keys /\ (context # <<>> => "context" \in keys)
    BY <1>t
  <2>. HIDE DEF call
  <2>3. /\ CallsOK' /\ redisCalls'[c] = call /\ Trimming' = Trimming /\ Pushing' = Pushing \ {c}
        /\ \A d \in RedisCalls : d # c => redisCalls'[d] = redisCalls[d]
    BY <2>1, <2>2, <1>m
  <2>4. Removing' = {c}
    <3>1. Removing = {}
      BY <2>1, <1>0
    <3>. QED
      BY <3>1, <2>2, <2>3 DEF Removing
  <2>5. ListOK'
    BY <2>1, <2>3, <1>0
  <2>6. ExpiryOK'
    BY <2>1, <2>3, <1>0
  <2>7. ClearOK'
    <3>1. cleared' \in {"begun", "overlapped"} /\ (cleared' = "begun" => Pushing = {})
      BY <2>1
    <3>2. \A d \in Removing' : d = c
      BY <2>4
    <3>. QED
      BY <3>1, <3>2, <2>1, <2>2, <2>3, <2>4
  <2>. QED
    BY <2>3, <2>5, <2>6, <2>7
<1>6. ASSUME NEW c \in RedisCalls, RemoveKeys(c) PROVE ListOK' /\ ExpiryOK' /\ ClearOK' /\ CallsOK'
  <2>1. /\ redisCalls[c].pc = "del" /\ redisCalls' = [redisCalls EXCEPT ![c] = IdleRedis]
        /\ IF "context" \in redisCalls[c].keys THEN RemoveContext
           ELSE UNCHANGED <<context, expires, pushedSince, abandoned>>
        /\ cleared' = IF cleared = "begun" THEN "done" ELSE cleared
    BY <1>6 DEF RemoveKeys, RedisAt, RedisGo
  <2>2. IdleRedis \in RedisCallTypes /\ IdleRedis.pc = "none"
    BY <1>t
  <2>3. /\ CallsOK' /\ Trimming' = Trimming /\ Removing' = Removing \ {c} /\ Pushing' = Pushing \ {c}
        /\ \A d \in RedisCalls : d # c => redisCalls'[d] = redisCalls[d]
    BY <2>1, <2>2, <1>m
  <2>4. c \in Removing /\ Removing' = {}
    <3>1. c \in Removing
      BY <2>1 DEF Removing
    <3>. QED
      BY <3>1, <2>3, <1>0
  <2>5. ListOK' /\ ExpiryOK' /\ (cleared = "begun" => context' = <<>>)
    <3>1. CASE "context" \in redisCalls[c].keys
      BY <3>1, <2>1, <2>3, <1>l, <1>r
    <3>2. CASE "context" \notin redisCalls[c].keys
      <4>1. UNCHANGED <<context, expires, pushedSince, abandoned>>
        BY <3>2, <2>1
      <4>2. ListOK'
        BY <4>1, <2>3, <1>0
      <4>3. ExpiryOK'
        BY <4>1, <2>1, <2>3, <1>0
      <4>4. cleared = "begun" => context' = <<>>
        BY <4>1, <3>2, <2>4, <1>0
      <4>. QED
        BY <4>2, <4>3, <4>4
    <3>. QED
      BY <3>1, <3>2
  <2>6. ClearOK'
    <3>1. cleared' \in {"no", "done", "overlapped"} /\ (cleared' = "done" => cleared \in {"begun", "done"})
      BY <2>1, <1>0
    <3>2. cleared # "done"
      BY <2>4, <1>0
    <3>. QED
      BY <3>1, <3>2, <2>3, <2>4, <2>5, <1>0
  <2>. QED
    BY <2>3, <2>5, <2>6
<1>7. CASE AcquireSlot \/ CooldownEnds
  <2>1. UNCHANGED <<context, expires, redisCalls, pushedSince, abandoned, cleared>>
    BY <1>7 DEF AcquireSlot, CooldownEnds
  <2>. QED
    BY <2>1, <1>0 DEF Trimming, Removing, Pushing
<1>8. CASE ContextExpires
  <2>1. RemoveContext /\ UNCHANGED <<redisCalls, cleared>>
    BY <1>8 DEF ContextExpires
  <2>2. Trimming' = Trimming /\ Removing' = Removing /\ Pushing' = Pushing
    BY <2>1 DEF Trimming, Removing, Pushing
  <2>3. ListOK' /\ ExpiryOK' /\ context' = <<>>
    BY <2>1, <2>2, <1>l, <1>r
  <2>. QED
    BY <2>1, <2>2, <2>3, <1>0
<1>9. ASSUME NEW c \in RedisCalls, RedisFails(c) PROVE ListOK' /\ ExpiryOK' /\ ClearOK' /\ CallsOK'
  <2>1. /\ redisCalls[c].pc # "none" /\ abandoned = 0 /\ redisCalls' = [redisCalls EXCEPT ![c] = IdleRedis]
        /\ abandoned' = IF redisCalls[c].pc \in {"trim", "expire"} /\ context # <<>> THEN 1 ELSE 0
        /\ cleared' = IF redisCalls[c].pc = "del" THEN "no" ELSE cleared
        /\ UNCHANGED <<context, expires, cooldown, pushedSince>>
    BY <1>9 DEF RedisFails, RedisAt, RedisGo
  <2>2. IdleRedis \in RedisCallTypes /\ IdleRedis.pc = "none"
    BY <1>t
  <2>3. /\ CallsOK' /\ Removing' = Removing \ {c} /\ Pushing' = Pushing \ {c}
        /\ redisCalls[c].pc # "trim" => Trimming' = Trimming
        /\ redisCalls[c].pc = "trim" => Cardinality(Trimming)' = Cardinality(Trimming) - 1
        /\ \A d \in RedisCalls : d # c => redisCalls'[d] = redisCalls[d]
    BY <2>1, <2>2, <1>m
  <2>4. ListOK'
    <3>1. Len(context) <= Window + Cardinality(Trimming)' + abandoned'
      <4>1. CASE redisCalls[c].pc # "trim"
        BY <4>1, <2>1, <2>3, <1>0, <1>l
      <4>2. CASE redisCalls[c].pc = "trim" /\ context # <<>>
        BY <4>2, <2>1, <2>3, <1>0, <1>l
      <4>3. CASE redisCalls[c].pc = "trim" /\ context = <<>>
        <5>1. c \in Trimming
          BY <4>3 DEF Trimming
        <5>2. Cardinality(Trimming) # 0 /\ Len(context) = 0
          BY <4>3, <5>1, <1>0, <1>l, FS_EmptySet, EmptySeq
        <5>. QED
          BY <5>2, <4>3, <2>1, <2>3, <1>l
      <4>. QED
        BY <4>1, <4>2, <4>3
    <3>. QED
      BY <3>1, <2>1, <1>0
  <2>5. ExpiryOK'
    BY <2>1, <2>3, <1>0
  <2>6. ClearOK'
    <3>1. CASE redisCalls[c].pc = "del"
      <4>1. c \in Removing /\ cleared' = "no"
        BY <3>1, <2>1 DEF Removing
      <4>2. Removing' = {}
        BY <4>1, <2>3, <1>0
      <4>. QED
        BY <4>1, <4>2
    <3>2. CASE redisCalls[c].pc # "del"
      <4>1. c \notin Removing /\ cleared' = cleared
        BY <3>2, <2>1 DEF Removing
      <4>2. Removing' = Removing /\ \A d \in Removing : redisCalls'[d] = redisCalls[d]
        BY <4>1, <2>3 DEF Removing
      <4>. QED
        BY <4>1, <4>2, <2>1, <2>3, <1>0
    <3>. QED
      BY <3>1, <3>2
  <2>. QED
    BY <2>3, <2>4, <2>5, <2>6
<1>10. CASE UNCHANGED redisVars
  <2>1. UNCHANGED <<context, expires, redisCalls, pushedSince, abandoned, cleared>>
    BY <1>10 DEF redisVars
  <2>. QED
    BY <2>1, <1>0 DEF Trimming, Removing, Pushing
<1>. QED
  BY <1>1, <1>2, <1>3, <1>4, <1>5, <1>6, <1>7, <1>8, <1>9, <1>10 DEF RedisNext

LEMMA RedisBegins == RedisInit => RedisShape /\ RedisInv
<1>. SUFFICES ASSUME RedisInit PROVE RedisShape /\ RedisInv
  OBVIOUS
<1>1. context = <<>> /\ pushedSince = <<>> /\ abandoned = 0 /\ cleared = "no"
  BY DEF RedisInit
<1>2. redisCalls \in [RedisCalls -> RedisCallTypes] /\ Trimming = {} /\ Removing = {} /\ Pushing = {}
  BY DEF RedisInit, RedisCallTypes, IdleRedis, Trimming, Removing, Pushing
<1>3. <<>> \in Seq(Nat) /\ Len(<<>>) = 0 /\ EndsWith(<<>>, <<>>)
  BY EmptySeq DEF EndsWith
<1>4. Cardinality(Trimming) = 0
  BY <1>2, FS_EmptySet
<1>5. Len(context) <= Window + Cardinality(Trimming) + abandoned
  BY <1>1, <1>3, <1>4, RedisAssumption
<1>. QED
  BY <1>1, <1>2, <1>3, <1>5 DEF RedisShape, RedisInv

LEMMA RedisCorrect == RedisSpec => []ContextIsRecent
\* A call that has pushed and not trimmed is one under way.
<1>1. RedisShape /\ RedisInv => ContextIsRecent
  <2>. SUFFICES ASSUME RedisShape, RedisInv PROVE ContextIsRecent
    OBVIOUS
  <2>1. IsSuffix(context, pushedSince)
    BY EndsWithIsSuffix DEF RedisShape, RedisInv
  <2>2. Trimming \subseteq Pushing /\ Pushing \subseteq RedisCalls
    BY DEF Trimming, Pushing
  <2>3. Cardinality(Trimming) <= Cardinality(Pushing)
        /\ Cardinality(Trimming) \in Nat /\ Cardinality(Pushing) \in Nat
    <3>1. IsFiniteSet(Pushing)
      BY <2>2, RedisAssumption, FS_Subset
    <3>2. IsFiniteSet(Trimming) /\ Cardinality(Trimming) <= Cardinality(Pushing)
      BY <3>1, <2>2, FS_Subset
    <3>. QED
      BY <3>1, <3>2, FS_CardinalityType
  <2>4. Len(context) <= Window + Cardinality(Pushing) + abandoned
    <3>1. Len(context) \in Nat /\ abandoned \in Nat /\ Window \in Nat
          /\ Len(context) <= Window + Cardinality(Trimming) + abandoned
      BY RedisAssumption, LenProperties DEF RedisShape, RedisInv
    <3>. QED
      BY <3>1, <2>3
  <2>5. context # <<>> /\ ~expires => Pushing # {} \/ abandoned > 0
    BY DEF RedisInv, Pushing
  <2>. QED
    BY <2>1, <2>4, <2>5 DEF ContextIsRecent, RedisInv
<1>. QED
  BY <1>1, RedisBegins, RedisStep, PTL DEF RedisSpec

\* A trim leaves elements of the list.
LEMMA TrimKeepsElements ==
    ASSUME NEW S, NEW s \in Seq(S), NEW m \in Int, m >= 1
    PROVE  SubSeq(s, m, Len(s)) \in Seq(S)
<1>1. Len(s) \in Nat
  BY LenProperties
<1>2. CASE m <= Len(s) + 1
  BY <1>1, <1>2
<1>3. CASE m > Len(s) + 1
  BY <1>1, <1>3
<1>. QED
  BY <1>1, <1>2, <1>3

RedisMore ==
    /\ context \in Seq(1..MaxPushes) /\ pushedSince \in Seq(1..MaxPushes)
    /\ expires \in BOOLEAN /\ cooldown \in BOOLEAN
    /\ expires => context # <<>>

LEMMA RedisMoreStep == RedisShape /\ RedisMore /\ [RedisNext]_redisVars => RedisMore'
<1>. SUFFICES ASSUME RedisShape, RedisMore, [RedisNext]_redisVars PROVE RedisMore'
  OBVIOUS
<1>0. <<>> \in Seq(1..MaxPushes)
  BY EmptySeq
<1>1. ASSUME NEW c \in RedisCalls, PushContext(c) PROVE RedisMore'
  <2>. PICK n \in 1..MaxPushes : context' = Append(context, n) /\ pushedSince' = Append(pushedSince, n)
    BY <1>1 DEF PushContext
  <2>1. context' \in Seq(1..MaxPushes) /\ context' # <<>> /\ pushedSince' \in Seq(1..MaxPushes)
    BY AppendProperties DEF RedisMore
  <2>. QED
    BY <1>1, <2>1 DEF PushContext, RedisMore
<1>2. ASSUME NEW c \in RedisCalls, Trim(c) PROVE RedisMore'
  <2>1. context' \in Seq(1..MaxPushes) /\ (context' = <<>> <=> context = <<>>)
    <3>. SUFFICES ASSUME NEW CONSTANT s, s = context, NEW CONSTANT m, m = Max({1, Len(s) - Window + 1})
                  PROVE  context' \in Seq(1..MaxPushes) /\ (context' = <<>> <=> s = <<>>)
      OBVIOUS
    <3>1. /\ s \in Seq(Nat) /\ s \in Seq(1..MaxPushes)
          /\ Len(s) - Window + 1 \in Int /\ 1 \in Int /\ Window \in Nat \ {0}
      BY LenProperties, RedisAssumption DEF RedisShape, RedisMore
    <3>2. m \in {1, Len(s) - Window + 1} /\ m >= 1 /\ m >= Len(s) - Window + 1
      BY <3>1, MaxOfTwo
    <3>3. m \in Int /\ (m = 1 \/ m = Len(s) - Window + 1)
      BY <3>1, <3>2
    <3>4. context' = SubSeq(s, m, Len(s))
      BY <1>2 DEF Trim
    <3>5. SubSeq(s, m, Len(s)) \in Seq(1..MaxPushes)
      BY <3>1, <3>2, <3>3, TrimKeepsElements
    <3>6. SubSeq(s, m, Len(s)) = <<>> <=> s = <<>>
      BY <3>1, <3>2, <3>3, TrimKeepsEnd, ZenonT(60)
    <3>. QED
      BY <3>4, <3>5, <3>6
  <2>. QED
    BY <1>2, <2>1 DEF Trim, RedisMore
<1>3. ASSUME NEW c \in RedisCalls, RemoveKeys(c) PROVE RedisMore'
  <2>1. context' \in Seq(1..MaxPushes) /\ pushedSince' \in Seq(1..MaxPushes)
    BY <1>0, <1>3 DEF RemoveKeys, RemoveContext, RedisMore
  <2>2. cooldown' = FALSE \/ cooldown' = cooldown
    BY <1>3 DEF RemoveKeys
  <2>3. expires' = FALSE \/ (expires' = expires /\ context' = context)
    BY <1>3 DEF RemoveKeys, RemoveContext
  <2>4. cooldown' \in BOOLEAN
    BY <2>2, Zenon DEF RedisMore
  <2>5. expires' \in BOOLEAN
    BY <2>3, Zenon DEF RedisMore
  <2>6. (expires => context # <<>>) => (expires' => context' # <<>>)
    BY <2>3
  <2>. QED
    BY <2>1, <2>4, <2>5, <2>6 DEF RedisMore
<1>4. ASSUME NEW c \in RedisCalls, Expire(c) PROVE RedisMore'
  <2>1. UNCHANGED <<context, pushedSince, cooldown>>
    BY <1>4 DEF Expire
  <2>2. expires' = (context # <<>>)
    BY <1>4 DEF Expire
  <2>3. expires' \in BOOLEAN /\ (expires' => context' # <<>>)
    BY <2>1, <2>2, Zenon
  <2>. QED
    BY <2>1, <2>3 DEF RedisMore
<1>7. ASSUME NEW c \in RedisCalls, StartPush(c) \/ ListKeys(c) \/ RedisFails(c) PROVE RedisMore'
  <2>1. UNCHANGED <<context, expires, cooldown, pushedSince>>
    BY <1>7 DEF StartPush, ListKeys, RedisFails
  <2>. QED
    BY <2>1 DEF RedisMore
<1>5. CASE AcquireSlot \/ CooldownEnds
  <2>1. UNCHANGED <<context, expires, pushedSince>>
    BY <1>5 DEF AcquireSlot, CooldownEnds
  <2>2. cooldown' = TRUE \/ cooldown' = FALSE
    BY <1>5 DEF AcquireSlot, CooldownEnds
  <2>3. cooldown' \in BOOLEAN
    BY <2>2, Zenon
  <2>. QED
    BY <2>1, <2>3 DEF RedisMore
<1>8. CASE ContextExpires
  <2>1. /\ context' = <<>> /\ pushedSince' = <<>> /\ expires' = FALSE
        /\ cooldown' = cooldown
    BY <1>8 DEF ContextExpires, RemoveContext
  <2>2. expires' \in BOOLEAN /\ (expires' => context' # <<>>) /\ cooldown' \in BOOLEAN
    BY <2>1, Zenon DEF RedisMore
  <2>. QED
    BY <1>0, <2>1, <2>2 DEF RedisMore
<1>6. CASE UNCHANGED redisVars
  BY <1>6 DEF redisVars, RedisMore
<1>. QED
  BY <1>1, <1>2, <1>3, <1>4, <1>5, <1>6, <1>7, <1>8 DEF RedisNext

LEMMA RedisTyped == RedisSpec => []RedisTypeOK
<1>1. RedisInit => RedisMore
  BY EmptySeq DEF RedisInit, RedisMore
<1>2. RedisShape /\ RedisMore => RedisTypeOK
  <2>. SUFFICES ASSUME RedisShape, RedisMore PROVE RedisTypeOK
    OBVIOUS
  <2>1. \A c \in RedisCalls : redisCalls[c].pc \in {"none", "push", "trim", "expire", "del"}
    BY DEF RedisShape, RedisCallTypes
  <2>. QED
    BY <2>1 DEF RedisTypeOK, RedisShape, RedisMore
<1>. QED
  BY <1>1, <1>2, RedisBegins, RedisStep, RedisMoreStep, PTL DEF RedisSpec

-----------------------------------------------------------------------------
(* SchemaMigration: the database is that of a stage no migrator is past.       *)

AtStage(k) == database \in Stages[k] /\ \A m \in Migrators : migrators[m] <= k

MigrationInv ==
    /\ MigrationTypeOK /\ \A m \in Migrators : migrators[m] # Refused
    /\ \E k \in 0..Len(Queries) : AtStage(k)

LEMMA QueryCount == Len(Queries) \in Nat /\ DOMAIN Queries = 1..Len(Queries)
  BY DEF Queries

LEMMA MigrationBegins == MigrationInit => MigrationInv
<1>. SUFFICES ASSUME MigrationInit PROVE MigrationInv
  OBVIOUS
<1>1. database \in Stages[0] /\ DOMAIN database \subseteq TableNames
  BY QueriesAssumption DEF MigrationInit
<1>2. \A m \in Migrators : migrators[m] = -1
  BY DEF MigrationInit, NotMigrating
<1>3. AtStage(0) /\ 0 \in 0..Len(Queries)
  BY <1>1, <1>2, QueryCount DEF AtStage
<1>4. MigrationTypeOK
  BY <1>1 DEF MigrationInit, MigrationTypeOK
<1>5. \A m \in Migrators : migrators[m] # Refused
  BY <1>2 DEF Refused
<1>. QED
  BY <1>3, <1>4, <1>5 DEF MigrationInv

LEMMA MigrationStep == MigrationInv /\ [MigrationNext]_migrationVars => MigrationInv'
<1>. SUFFICES ASSUME MigrationInv, [MigrationNext]_migrationVars PROVE MigrationInv'
  OBVIOUS
<1>. PICK k \in 0..Len(Queries) : AtStage(k)
  BY DEF MigrationInv
<1>0. /\ DOMAIN database \subseteq TableNames
      /\ migrators \in [Migrators -> {NotMigrating, Refused} \cup 0..Len(Queries)]
      /\ \A m \in Migrators : migrators[m] # Refused
  BY DEF MigrationInv, MigrationTypeOK
\* A migrator that does not touch the database, and is no further than its stage.
<1>a. ASSUME NEW m \in Migrators, NEW at \in {NotMigrating} \cup 0..Len(Queries), at <= k,
             migrators' = [migrators EXCEPT ![m] = at], database' = database
      PROVE  MigrationInv'
  <2>1. \A n \in Migrators : migrators'[n] \in {migrators[n], at}
    BY <1>0, <1>a
  <2>2. migrators' \in [Migrators -> {NotMigrating, Refused} \cup 0..Len(Queries)]
    BY <1>0, <1>a
  <2>3. \A n \in Migrators : migrators'[n] # Refused /\ migrators'[n] <= k
    BY <1>0, <1>a, <2>1, QueryCount DEF Refused, NotMigrating, AtStage
  <2>. QED
    BY <1>0, <1>a, <2>2, <2>3 DEF MigrationInv, MigrationTypeOK, AtStage
<1>1. ASSUME NEW m \in Migrators, StartMigration(m) \/ MigrationFails(m) PROVE MigrationInv'
  <2>1. \E at \in {NotMigrating, 0} : migrators' = [migrators EXCEPT ![m] = at] /\ database' = database
    BY <1>1 DEF StartMigration, MigrationFails
  <2>2. \A at \in {NotMigrating, 0} : at \in {NotMigrating} \cup 0..Len(Queries) /\ at <= k
    BY QueryCount DEF NotMigrating
  <2>. QED
    BY <1>a, <2>1, <2>2
\* A query that has been run leaves the database in its stage, the next one takes it on.
<1>2. ASSUME NEW m \in Migrators, RunQuery(m) PROVE MigrationInv'
  <2>. SUFFICES ASSUME NEW CONSTANT q, q = migrators[m] + 1,
                       NEW CONSTANT next, next = IF q <= k THEN k ELSE q
                PROVE  MigrationInv'
    OBVIOUS
  <2>1. q \in DOMAIN Queries /\ q \in 0..Len(Queries) /\ q \in Int /\ q <= k + 1
    BY <1>2, QueryCount DEF RunQuery, AtStage
  <2>2. next \in 0..Len(Queries) /\ k <= next /\ q <= next
    BY <2>1, QueryCount
  <2>3. Executes(database, q)
    BY <2>1, QueriesAssumption DEF AtStage
  <2>4. database' = Migrated(database, q) /\ migrators' = [migrators EXCEPT ![m] = q]
    BY <1>2, <2>3 DEF RunQuery
  <2>5. Migrated(database, q) \in Stages[next]
    <3>1. CASE q <= k
      BY <2>1, <3>1, QueriesAssumption DEF AtStage
    <3>2. CASE q = k + 1
      BY <2>1, <3>2, QueriesAssumption, QueryCount DEF AtStage
    <3>. QED
      BY <2>1, <3>1, <3>2, QueryCount
  <2>6. DOMAIN database' \subseteq TableNames
    BY <2>4 DEF Migrated, TablesAfter
  <2>7. migrators' \in [Migrators -> {NotMigrating, Refused} \cup 0..Len(Queries)]
    BY <1>0, <2>1, <2>4
  <2>8. \A n \in Migrators : migrators'[n] \in {migrators[n], q} /\ migrators[n] <= k
    BY <1>0, <2>4 DEF AtStage
  <2>9. \A n \in Migrators : migrators'[n] # Refused /\ migrators'[n] <= next
    <3>. SUFFICES ASSUME NEW n \in Migrators PROVE migrators'[n] # Refused /\ migrators'[n] <= next
      OBVIOUS
    <3>1. CASE migrators'[n] = migrators[n]
      <4>1. migrators[n] \in Int
        BY <1>0, QueryCount DEF Refused, NotMigrating
      <4>. QED
        BY <1>0, <2>2, <2>8, <3>1, <4>1, QueryCount
    <3>2. CASE migrators'[n] = q
      BY <2>1, <2>2, <3>2, QueryCount DEF Refused
    <3>. QED
      BY <2>8, <3>1, <3>2
  <2>10. AtStage(next)'
    BY <2>4, <2>5, <2>9 DEF AtStage
  <2>. QED
    BY <2>2, <2>6, <2>7, <2>9, <2>10 DEF MigrationInv, MigrationTypeOK
<1>3. CASE UNCHANGED migrationVars
  BY <1>3 DEF migrationVars, MigrationInv, MigrationTypeOK, AtStage
<1>. QED
  BY <1>1, <1>2, <1>3 DEF MigrationNext

LEMMA MigrationCorrect == MigrationSpec => [](MigrationTypeOK /\ SchemaIsReached)
<1>1. MigrationInv => MigrationTypeOK /\ SchemaIsReached
  <2>. SUFFICES ASSUME MigrationInv, NEW m \in Migrators, migrators[m] = Len(Queries) PROVE AsDeclared(database)
    BY DEF MigrationInv, SchemaIsReached
  <2>1. PICK k \in 0..Len(Queries) : AtStage(k)
    BY DEF MigrationInv
  <2>2. Len(Queries) <= k
    BY <2>1 DEF AtStage
  <2>3. k = Len(Queries)
    <3>1. \A n \in Nat : \A j \in 0..n : n <= j => j = n
      OBVIOUS
    <3>. QED
      BY <2>1, <2>2, <3>1, QueryCount, Zenon
  <2>. QED
    BY <2>1, <2>3, QueriesAssumption DEF AtStage
<1>. QED
  BY <1>1, MigrationBegins, MigrationStep, PTL DEF MigrationSpec

-----------------------------------------------------------------------------
(* The services together. *)

\* LiftRecords: what the services do is, for each of them, a step of its own or no step of
\* its variables; no service touches the variables of another.
LEMMA LiftRecords ==
  [ServicesNext]_servicesVars =>
    /\ [LeadNext]_leadVars /\ [ResearchNext]_researchVars /\ [OutreachNext]_outreachVars
    /\ [DailyNext]_dailyVars /\ [DigestNext]_digestVars
    /\ [DeliveryNext]_deliveryVars /\ [StreamNext]_streamVars
    /\ [StoreNext]_storeVars /\ [RedisNext]_redisVars /\ [MigrationNext]_migrationVars
BY DEF ServicesNext, servicesVars, Relay, Actions, Storage, Feed, Daily, Budget, Rooms, Calendar,
       Profile, Outreach, Migration, Skills, Research, Reports, Stream, Identity, Answers, Redis,
       Digests, Drafts

LEMMA LiftRecordsInit ==
  ServicesInit =>
    /\ LeadInit /\ ResearchInit /\ OutreachInit /\ DailyInit /\ DigestInit
    /\ DeliveryInit /\ StreamInit /\ StoreInit /\ RedisInit /\ MigrationInit
BY DEF ServicesInit

\* A lead's email is that of a stored source and a merged lead stays silent, an answer
\* cites the sources it was composed from, and what is recorded of a draft is of its
\* text (outreach/, research/): none of it rests on a transaction, as no two of these
\* statements are one.
THEOREM FindingsBacked == ServicesSpec => []FindingsAreBacked
  <1>1. ServicesSpec => []LeadsAreSound
    BY LiftRecords, LiftRecordsInit, LeadCorrect, PTL DEF ServicesSpec, LeadSpec
  <1>2. ServicesSpec => []AnswersAreSourceBacked
    BY LiftRecords, LiftRecordsInit, ResearchCorrect, PTL DEF ServicesSpec
  <1>3. ServicesSpec => []DraftsAreReviewable
    BY LiftRecords, LiftRecordsInit, OutreachCorrect, PTL DEF ServicesSpec, OutreachSpec
  <1>4. LeadsAreSound /\ AnswersAreSourceBacked /\ DraftsAreReviewable => FindingsAreBacked
    BY DEF FindingsAreBacked
  <1>. QED
    BY <1>1, <1>2, <1>3, <1>4, PTL

\* A commitment that is confirmed is in the inbox by an open task, unless the task it was
\* found to have was closed or went with its session; and a period shows its newest
\* digest, which is stale for one that began after it and read tasks as late (daily/,
\* daily-life/): neither pair of writes is in a transaction. Calls whose pair overlaps,
\* or is cut, may leave two current digests, or none.
THEOREM DailyCurrent == ServicesSpec => []DailyIsCurrent
  <1>1. ServicesSpec => []CommitmentHasTask
    BY LiftRecords, LiftRecordsInit, DailyCorrect, PTL DEF ServicesSpec, DailySpec
  <1>2. ServicesSpec => []DigestIsCurrent
    BY LiftRecords, LiftRecordsInit, DigestCorrect, PTL DEF ServicesSpec, DigestSpec
  <1>3. CommitmentHasTask /\ DigestIsCurrent => DailyIsCurrent
    BY DEF DailyIsCurrent
  <1>. QED
    BY <1>1, <1>2, <1>3, PTL

\* A report is not marked as emitted and then shown to no one, and is emitted or past its
\* deadline when the watcher leaves, unless a statement of the watcher failed; the cursor
\* of the notification stream passes no row of the session that was not sent, but one
\* whose insert a later row overtook (voice/ws.ts, server.ts).
THEOREM ReportsReach == ServicesSpec => []ReportsReachClients
  <1>1. ServicesSpec => []ReportsAreShown
    BY LiftRecords, LiftRecordsInit, DeliveryCorrect, PTL DEF ServicesSpec
  <1>2. ServicesSpec => []StreamPassesNothing
    BY LiftRecords, LiftRecordsInit, StreamCorrect, PTL DEF ServicesSpec
  <1>3. ReportsAreShown /\ StreamPassesNothing => ReportsReachClients
    BY DEF ReportsReachClients
  <1>. QED
    BY <1>1, <1>2, <1>3, PTL

\* The bucket holds the files the rows name and none of a discarded session, but for calls
\* under way, and the files of statements that failed or of a process that died, the
\* failing list of them among these (storage/lifecycle.ts, manager.ts); and the list
\* in Redis is the end of what was pushed, no longer than the window and the pushes
\* that have not trimmed it (redis.ts).
THEOREM StoresAccounted == ServicesSpec => []StoresAreAccounted
  <1>1. ServicesSpec => []BucketIsAccounted
    BY LiftRecords, LiftRecordsInit, StoreCorrect, PTL DEF ServicesSpec, StoreSpec
  <1>2. ServicesSpec => []ContextIsRecent
    BY LiftRecords, LiftRecordsInit, RedisCorrect, PTL DEF ServicesSpec, RedisSpec
  <1>3. BucketIsAccounted /\ ContextIsRecent => StoresAreAccounted
    BY DEF StoresAreAccounted
  <1>. QED
    BY <1>1, <1>2, <1>3, PTL

\* Whatever the age of the database, and however many migrators overlap and die, no
\* statement of a migration is refused, and after a whole one the tables are those the
\* program declares (scripts/migrate.ts). What one query does to one database, which has
\* no parameter, is QueriesAssumption.
THEOREM SchemaReached == ServicesSpec => []SchemaIsReached
  <1>1. ServicesSpec => [](MigrationTypeOK /\ SchemaIsReached)
    BY LiftRecords, LiftRecordsInit, MigrationCorrect, PTL DEF ServicesSpec, MigrationSpec
  <1>. QED
    BY <1>1, PTL

\* Every variable of a service has its type, and a row refers to rows there are.
THEOREM ServicesTyped == ServicesSpec => []ServicesTypeOK
  <1>1. ServicesSpec => []RelayTypeOK
    BY Lift, LiftInit, RelayTyped, PTL DEF ServicesSpec, RelaySpec
  <1>2. ServicesSpec => []ActionTypeOK
    BY Lift, LiftInit, ActionTyped, PTL DEF ServicesSpec, ActionSpec
  <1>3. ServicesSpec => []StoreTypeOK
    BY LiftRecords, LiftRecordsInit, StoreTyped, PTL DEF ServicesSpec, StoreSpec
  <1>4. ServicesSpec => []FeedTypeOK
    BY Lift, LiftInit, FeedTyped, PTL DEF ServicesSpec, FeedSpec
  <1>5. ServicesSpec => []DailyTypeOK
    BY LiftRecords, LiftRecordsInit, DaysTyped, PTL DEF ServicesSpec, DailySpec
  <1>6. ServicesSpec => []BudgetTypeOK
    <2>1. BudgetInv => BudgetTypeOK
      BY DEF BudgetInv
    <2>. QED
      BY <2>1, Lift, LiftInit, BudgetCorrect, PTL DEF ServicesSpec, BudgetSpec
  <1>7. ServicesSpec => []RoomTypeOK
    <2>1. RoomInv => RoomTypeOK
      BY DEF RoomInv
    <2>. QED
      BY <2>1, Lift, LiftInit, RoomCorrect, PTL DEF ServicesSpec, RoomSpec
  <1>8. ServicesSpec => []ConnectorTypeOK
    BY Lift, LiftInit, ConnectorTyped, PTL DEF ServicesSpec, ConnectorSpec
  <1>9. ServicesSpec => []ProfileTypeOK
    BY Lift, LiftInit, ProfileTyped, PTL DEF ServicesSpec, ProfileSpec
  <1>10. ServicesSpec => []LeadTypeOK
    BY LiftRecords, LiftRecordsInit, LeadsTyped, PTL DEF ServicesSpec, LeadSpec
  <1>11. ServicesSpec => [](MigrationTypeOK /\ SchemaIsReached)
    BY LiftRecords, LiftRecordsInit, MigrationCorrect, PTL DEF ServicesSpec, MigrationSpec
  <1>12. ServicesSpec => []SkillsTypeOK
    BY Lift, LiftInit, SkillsTyped, PTL DEF ServicesSpec
  <1>13. ServicesSpec => []ResearchTypeOK
    BY LiftRecords, LiftRecordsInit, QueriesTyped, PTL DEF ServicesSpec
  <1>14. ServicesSpec => []DeliveryTypeOK
    BY LiftRecords, LiftRecordsInit, DeliveriesTyped, PTL DEF ServicesSpec
  <1>15. ServicesSpec => []StreamTypeOK
    BY LiftRecords, LiftRecordsInit, StreamTyped, PTL DEF ServicesSpec
  <1>16. ServicesSpec => []SignInTypeOK
    BY Lift, LiftInit, SignInTyped, PTL DEF ServicesSpec
  <1>17. ServicesSpec => []VoiceAnswerTypeOK
    BY Lift, LiftInit, AnswerTyped, PTL DEF ServicesSpec, VoiceAnswerSpec
  <1>18. ServicesSpec => []RedisTypeOK
    BY LiftRecords, LiftRecordsInit, RedisTyped, PTL DEF ServicesSpec, RedisSpec
  <1>19. ServicesSpec => []DigestTypeOK
    BY LiftRecords, LiftRecordsInit, DigestsTyped, PTL DEF ServicesSpec, DigestSpec
  <1>20. ServicesSpec => []OutreachTypeOK
    BY LiftRecords, LiftRecordsInit, DraftsTyped, PTL DEF ServicesSpec, OutreachSpec
  <1>21. /\ RelayTypeOK /\ ActionTypeOK /\ StoreTypeOK /\ FeedTypeOK /\ DailyTypeOK
         /\ BudgetTypeOK /\ RoomTypeOK /\ ConnectorTypeOK /\ ProfileTypeOK /\ LeadTypeOK
         /\ MigrationTypeOK /\ SkillsTypeOK /\ ResearchTypeOK /\ DeliveryTypeOK
         /\ StreamTypeOK /\ SignInTypeOK /\ VoiceAnswerTypeOK /\ RedisTypeOK /\ DigestTypeOK
         /\ OutreachTypeOK
         => ServicesTypeOK
    BY Zenon DEF ServicesTypeOK
  <1>. QED
    BY <1>1, <1>2, <1>3, <1>4, <1>5, <1>6, <1>7, <1>8, <1>9, <1>10, <1>11, <1>12, <1>13, <1>14,
       <1>15, <1>16, <1>17, <1>18, <1>19, <1>20, <1>21, PTL
=============================================================================
