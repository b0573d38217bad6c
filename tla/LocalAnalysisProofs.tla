------------------------- MODULE LocalAnalysisProofs -------------------------
(* Theorems about LocalAnalysis: findings stay with their package, the run  *)
(* comes to nothing the abstraction leaves out, and the exit code tells.    *)
EXTENDS LocalAnalysis, SequenceTheorems, WellFoundedInduction, TLAPS

\* What a lookup leaves.
Entry == [package : Packages, found : SUBSET Advisories]

\* The steps after the CVE scan.
AfterLookups == {"code", "assemble", "degraded_run", "conflict", "migrate", "report", "exit"}

LocalTypes ==
    /\ at \in {"preprocess", "cve", "done"} \union AfterLookups
    /\ direct \in Seq(Packages)
    /\ transitive \in Seq(Packages)
    /\ known \in [Packages -> SUBSET Advisories]
    /\ looked \in 0 .. Len(Listed)
    /\ results \in Seq(Entry)

\* The entries are those of the packages looked up, one for each.  Those before the first repetition
\* stand at the place of their package, the others at that place or before it.
PlacesKept ==
    /\ Len(results) <= looked
    /\ \A i \in 1 .. looked : i < FirstRepeat => i <= Len(results)
    /\ \A i \in DOMAIN results : i < FirstRepeat => results[i].package = Listed[i]
    /\ \A i \in DOMAIN results : \E j \in 1 .. looked : results[i].package = Listed[j]
    /\ \A j \in 1 .. looked : \E i \in DOMAIN results : results[i].package = Listed[j]
    /\ \A i \in DOMAIN results, j \in 1 .. looked : results[i].package = Listed[j] => i <= j
    /\ \A i, j \in DOMAIN results : results[i].package = results[j].package => i = j

\* An entry holds what is known of its package, or part of it after a failure.
EntriesKnown ==
    \A i \in DOMAIN results :
        /\ results[i].found \subseteq known[results[i].package]
        /\ "scanner" \notin failures => results[i].found = known[results[i].package]

\* All packages have been looked up, or none as no dependency is direct.
LookupsDone == IF direct = <<>> THEN looked = 0 ELSE looked = Len(Listed)

LookupInv ==
    /\ LocalTypes
    /\ PlacesKept
    /\ EntriesKnown
    /\ at = "preprocess" => looked = 0 /\ vulnerabilities = {}
    /\ at = "cve" => direct # <<>>
    /\ at \in AfterLookups => LookupsDone /\ vulnerabilities = Paired

CodeInv ==
    /\ at = "assemble" =>
          /\ issues \subseteq ClassifiedAll(matches)
          /\ degraded \in BOOLEAN
          /\ "scanner" \notin failures => issues = ClassifiedAll(matches) /\ ~degraded
    /\ at \in {"preprocess", "cve", "code", "assemble"} => "security" \notin failures
    /\ at = "degraded_run" => "security" \in failures

Reporting == report.vulnerabilities \union report.issues

\* The repository as AgentVerdicts has it.
Abstract == [truth |-> Truth, listing |-> Listing]

\* The report of a scan without failures, one of a failed scan, that of the fallback, or {}.
ReportKinds ==
    \/ /\ report.present /\ Sees(Reporting) \in Verdicts!SeenIn(Abstract)
       /\ report.degraded = FALSE /\ "scanner" \notin failures /\ "security" \notin failures
    \/ /\ report.present /\ report.degraded \in BOOLEAN
       /\ \E seen \in Verdicts!SeenIn(Abstract) : Sees(Reporting) \in Verdicts!PartOf(seen)
       /\ "scanner" \in failures /\ "security" \notin failures
    \/ /\ report.present /\ Reporting = {} /\ report.degraded = TRUE
       /\ "security" \in failures
    \/ report = NoFindings /\ {"security", "security_twice"} \subseteq failures

\* The run has got past the security agent.
PastReport == Assessed \/ (at = "done" /\ "clone" \notin failures)

ReportInv ==
    PastReport =>
        /\ report.present \/ report = NoFindings
        /\ ReportKinds

VerdictInv ==
    /\ at # "conflict" /\ PastReport => decision \in Verdicts!ConflictOutcomes(Security)
    /\ at = "exit" => aggregated \in Verdicts!ReportOutcomes(ReporterInput, migration)
    /\ at = "done" /\ "clone" \notin failures => exit = {ExitCode}

LocalInv == LookupInv /\ CodeInv /\ ReportInv /\ VerdictInv

-----------------------------------------------------------------------------
(* What does not change.                                                    *)

\* The least element of a set of naturals, which FirstRepeat chooses.
LEMMA LeastElement ==
  ASSUME NEW T, T \subseteq Nat, T # {}
  PROVE  \E x \in T : \A y \in T : x <= y
<1>1. PICK x \in T : \A y \in T : <<y, x>> \notin OpToRel(<, Nat)
  BY WFMin, NatLessThanWellFounded, Zenon
<1>2. \A y \in T : ~(y < x)
  BY <1>1, Zenon DEF OpToRel
<1> QED BY <1>2

LEMMA ListedIs ==
  ASSUME direct \in Seq(Packages), transitive \in Seq(Packages)
  PROVE  /\ Listed \in Seq(Packages)
         /\ Len(Listed) \in Nat
         /\ DOMAIN Listed = 1 .. Len(Listed)
         /\ direct = <<>> /\ transitive = <<>> => Listed = <<>>
<1>1. Listed \in Seq(Packages)
  BY DEF Listed
<1>2. direct = <<>> /\ transitive = <<>> => Listed = <<>>
  BY DEF Listed
<1> QED BY <1>1, <1>2

\* No package before the first repetition is listed twice.
LEMMA FirstRepeatIs ==
  ASSUME direct \in Seq(Packages), transitive \in Seq(Packages)
  PROVE  /\ FirstRepeat \in 1 .. Len(Listed) + 1
         /\ \A i \in DOMAIN Listed :
               i < FirstRepeat => \A j \in 1 .. i - 1 : Listed[j] # Listed[i]
<1> DEFINE repeats == {i \in DOMAIN Listed : \E j \in 1 .. i - 1 : Listed[j] = Listed[i]}
<1>1. Len(Listed) \in Nat /\ DOMAIN Listed = 1 .. Len(Listed)
  BY ListedIs
<1>2. repeats \subseteq Nat /\ repeats \subseteq 1 .. Len(Listed)
  BY <1>1
<1>3. CASE repeats = {}
  <2>1. FirstRepeat = Len(Listed) + 1
    BY <1>3 DEF FirstRepeat
  <2>2. \A i \in DOMAIN Listed : \A j \in 1 .. i - 1 : Listed[j] # Listed[i]
    BY <1>3
  <2> QED BY <1>1, <2>1, <2>2
<1>4. CASE repeats # {}
  <2>1. FirstRepeat = CHOOSE i \in repeats : \A k \in repeats : i <= k
    BY <1>4 DEF FirstRepeat
  <2>2. \E i \in repeats : \A k \in repeats : i <= k
    <3> HIDE DEF repeats
    <3> QED BY <1>2, <1>4, LeastElement
  <2>3. FirstRepeat \in repeats /\ \A k \in repeats : FirstRepeat <= k
    <3> HIDE DEF repeats
    <3> QED BY <2>1, <2>2
  <2>4. FirstRepeat \in 1 .. Len(Listed)
    BY <1>2, <2>3
  <2>5. ASSUME NEW i \in DOMAIN Listed, i < FirstRepeat, NEW j \in 1 .. i - 1,
               Listed[j] = Listed[i]
        PROVE  FALSE
    <3>1. i \in repeats
      BY <2>5
    <3>2. FirstRepeat <= i /\ i \in Nat /\ FirstRepeat \in Nat
      BY <1>1, <2>3, <2>4, <3>1
    <3> QED BY <2>5, <3>2
  <2> QED BY <1>1, <2>4, <2>5
<1> QED BY <1>3, <1>4

\* No step changes the repository.
LEMMA RepositoryKept ==
  ASSUME [LocalNext]_localVars
  PROVE  UNCHANGED repository
<1>1. CASE LocalNext
  BY <1>1 DEF LocalNext, Preprocess, PreprocessRaises, Lookup, LookupFails, LookupNext, Pair,
     SemgrepAnswers, SemgrepFails, SemgrepMissing, CodeScanned, Assemble, AssembleRaises, Reported,
     DegradedRun, DegradedRunRaises, Resolve, ResolveRaises, Decided, Migrate, Aggregate, Exit
<1>2. CASE UNCHANGED localVars
  BY <1>2 DEF localVars
<1> QED BY <1>1, <1>2

LEMMA ListedKept ==
  ASSUME UNCHANGED repository
  PROVE  /\ direct' = direct /\ transitive' = transitive /\ known' = known /\ matches' = matches
         /\ Listed' = Listed
         /\ FirstRepeat' = FirstRepeat
         /\ Listing' = Listing
         /\ Complete' = Complete
         /\ Truth' = Truth
         /\ results' = results => Paired' = Paired
<1>1. /\ direct' = direct /\ transitive' = transitive /\ known' = known /\ matches' = matches
      /\ target' = target
  BY DEF repository
<1>2. Listed' = Listed
  BY <1>1 DEF Listed
<1>3. FirstRepeat' = FirstRepeat
  BY <1>2 DEF FirstRepeat
<1>4. Listing' = Listing
  BY <1>1, <1>2, <1>3 DEF Listing
<1>5. \A i : DepType(i)' = DepType(i)
  BY <1>1 DEF DepType
<1>6. Vulnerable' = Vulnerable
  BY <1>1, <1>2 DEF Vulnerable, DepType, Normalised
<1>7. Complete' = Complete
  BY <1>1, <1>6 DEF Complete, ClassifiedAll, Classified
<1>8. results' = results => Paired' = Paired
  BY <1>1, <1>2 DEF Paired, DepType, Normalised
<1>9. Truth' = Truth
  BY <1>7 DEF Truth
<1> QED BY <1>1, <1>2, <1>3, <1>4, <1>7, <1>8, <1>9

\* Part of the findings looks like part of the truth.
LEMMA SeesPart ==
  ASSUME NEW S, NEW T, S \subseteq T
  PROVE  /\ Sees(T) \in {"clean", "block", "human"}
         /\ Sees(S) \in Verdicts!PartOf(Sees(T))
         /\ Sees({}) = "clean"
BY DEF Sees, Verdicts!PartOf

-----------------------------------------------------------------------------
(* The lookups.                                                             *)

\* A key keeps its place and a new one comes last.
LEMMA PutIs ==
  ASSUME results \in Seq(Entry), NEW package \in Packages, NEW found \in SUBSET Advisories
  PROVE  /\ Put(package, found) \in Seq(Entry)
         /\ \/ /\ \E i \in DOMAIN results : results[i].package = package
               /\ Len(Put(package, found)) = Len(results)
               /\ \A i \in DOMAIN results :
                     /\ Put(package, found)[i].package = results[i].package
                     /\ Put(package, found)[i].found =
                           IF results[i].package = package THEN found ELSE results[i].found
            \/ /\ \A i \in DOMAIN results : results[i].package # package
               /\ Len(Put(package, found)) = Len(results) + 1
               /\ \A i \in DOMAIN results : Put(package, found)[i] = results[i]
               /\ Put(package, found)[Len(results) + 1] = [package |-> package, found |-> found]
<1> DEFINE places == {i \in DOMAIN results : results[i].package = package}
           new == [package |-> package, found |-> found]
           kept == [i \in DOMAIN results |->
                       IF i \in places THEN [results[i] EXCEPT !.found = found] ELSE results[i]]
<1>1. /\ Len(results) \in Nat /\ DOMAIN results = 1 .. Len(results)
      /\ \A i \in DOMAIN results : results[i] \in Entry
  OBVIOUS
<1>2. new \in Entry
  BY DEF Entry
<1>3. CASE places = {}
  <2>1. Put(package, found) = Append(results, new)
    BY <1>3 DEF Put
  <2> HIDE DEF new
  <2>2. /\ Append(results, new) \in Seq(Entry) /\ Len(Append(results, new)) = Len(results) + 1
        /\ \A i \in DOMAIN results : Append(results, new)[i] = results[i]
        /\ Append(results, new)[Len(results) + 1] = new
    BY <1>1, <1>2
  <2>3. \A i \in DOMAIN results : results[i].package # package
    BY <1>3
  <2> QED BY <2>1, <2>2, <2>3 DEF new
<1>4. CASE places # {}
  <2>1. Put(package, found) = kept
    BY <1>4 DEF Put
  <2>2. \A i \in DOMAIN results :
           /\ kept[i] \in Entry /\ kept[i].package = results[i].package
           /\ kept[i].found = IF results[i].package = package THEN found ELSE results[i].found
    BY <1>1 DEF Entry
  <2>3. kept \in Seq(Entry) /\ Len(kept) = Len(results)
    <3>1. DOMAIN kept = 1 .. Len(results)
      BY <1>1
    <3>2. \A i \in 1 .. Len(results) : kept[i] \in Entry
      BY <1>1, <2>2
    <3>3. kept = [i \in 1 .. Len(results) |-> kept[i]]
      BY <1>1
    <3> HIDE DEF kept
    <3>4. kept \in [1 .. Len(results) -> Entry]
      BY <3>1, <3>2, <3>3
    <3> QED BY <1>1, <3>4
  <2>4. \E i \in DOMAIN results : results[i].package = package
    BY <1>4
  <2> HIDE DEF kept
  <2> QED BY <2>1, <2>2, <2>3, <2>4
<1> QED BY <1>3, <1>4

\* The entry of the package looked up next is what was answered.
LEMMA LookupKeepsPlaces ==
  ASSUME LookupInv, NEW package \in Packages, NEW found \in SUBSET Advisories,
         UNCHANGED repository, looked < Len(Listed), package = Listed[looked + 1],
         looked' = looked + 1, results' = Put(package, found)
  PROVE  results' \in Seq(Entry) /\ looked' \in 0 .. Len(Listed)' /\ PlacesKept'
<1>1. /\ results \in Seq(Entry) /\ looked \in 0 .. Len(Listed) /\ PlacesKept
      /\ Len(results) \in Nat /\ DOMAIN results = 1 .. Len(results)
      /\ Len(Listed) \in Nat /\ DOMAIN Listed = 1 .. Len(Listed)
      /\ FirstRepeat \in 1 .. Len(Listed) + 1
  BY ListedIs, FirstRepeatIs DEF LookupInv, LocalTypes
<1>2. Listed' = Listed /\ FirstRepeat' = FirstRepeat
  BY ListedKept
<1>3. looked \in Nat /\ looked' \in 0 .. Len(Listed)'
  BY <1>1, <1>2
<1>4. results' \in Seq(Entry)
  BY <1>1, PutIs
<1>5. /\ Len(results') \in Nat /\ DOMAIN results' = 1 .. Len(results')
  BY <1>4
<1>6. CASE /\ \E i \in DOMAIN results : results[i].package = package
           /\ Len(results') = Len(results)
           /\ \A i \in DOMAIN results : results'[i].package = results[i].package
  <2>1. looked + 1 < FirstRepeat => FALSE
    <3>1. PICK i \in DOMAIN results, j \in 1 .. looked :
              results[i].package = package /\ results[i].package = Listed[j]
      BY <1>1, <1>6 DEF PlacesKept
    <3>2. looked + 1 \in DOMAIN Listed /\ j \in 1 .. (looked + 1) - 1
      BY <1>1, <1>3
    <3>3. Listed[j] = Listed[looked + 1]
      BY <3>1
    <3> QED BY <3>2, <3>3, FirstRepeatIs DEF LookupInv, LocalTypes
  <2>2. Len(results') <= looked'
    BY <1>1, <1>3, <1>6 DEF PlacesKept
  <2>3. \A i \in 1 .. looked' : i < FirstRepeat' => i <= Len(results')
    BY <1>1, <1>2, <1>3, <1>6, <2>1 DEF PlacesKept
  <2>4. \A i \in DOMAIN results' : i < FirstRepeat' => results'[i].package = Listed'[i]
    BY <1>1, <1>2, <1>5, <1>6 DEF PlacesKept
  <2>5. \A i \in DOMAIN results' : \E j \in 1 .. looked' : results'[i].package = Listed'[j]
    <3> SUFFICES ASSUME NEW i \in DOMAIN results'
                 PROVE  \E j \in 1 .. looked' : results'[i].package = Listed'[j]
      OBVIOUS
    <3>1. i \in DOMAIN results
      BY <1>1, <1>5, <1>6
    <3>2. PICK j \in 1 .. looked : results[i].package = Listed[j]
      BY <1>1, <3>1 DEF PlacesKept
    <3>3. j \in 1 .. looked'
      BY <1>3
    <3> QED BY <1>2, <1>6, <3>1, <3>2, <3>3
  <2>6. \A i, j \in DOMAIN results' : results'[i].package = results'[j].package => i = j
    <3> SUFFICES ASSUME NEW i \in DOMAIN results', NEW j \in DOMAIN results',
                        results'[i].package = results'[j].package
                 PROVE  i = j
      OBVIOUS
    <3>1. i \in DOMAIN results /\ j \in DOMAIN results
      BY <1>1, <1>5, <1>6
    <3>2. results[i].package = results[j].package
      BY <1>6, <3>1
    <3> QED BY <1>1, <3>1, <3>2 DEF PlacesKept
  <2>7. \A j \in 1 .. looked' : \E i \in DOMAIN results' : results'[i].package = Listed'[j]
    <3> SUFFICES ASSUME NEW j \in 1 .. looked + 1
                 PROVE  \E i \in DOMAIN results' : results'[i].package = Listed[j]
      BY <1>2
    <3>1. PICK i \in DOMAIN results : results[i].package = Listed[j]
      <4>1. CASE j \in 1 .. looked
        BY <1>1, <4>1 DEF PlacesKept
      <4>2. CASE j = looked + 1
        BY <1>6, <4>2
      <4> QED BY <1>3, <4>1, <4>2
    <3>2. i \in DOMAIN results'
      BY <1>1, <1>5, <1>6
    <3> QED BY <1>6, <3>1, <3>2
  <2>8. \A i \in DOMAIN results', j \in 1 .. looked' : results'[i].package = Listed'[j] => i <= j
    <3> SUFFICES ASSUME NEW i \in DOMAIN results', NEW j \in 1 .. looked + 1,
                        results'[i].package = Listed[j]
                 PROVE  i <= j
      BY <1>2
    <3>1. i \in DOMAIN results /\ results[i].package = Listed[j]
      BY <1>1, <1>5, <1>6
    <3>2. CASE j \in 1 .. looked
      BY <1>1, <3>1, <3>2 DEF PlacesKept
    <3>3. CASE j = looked + 1
      BY <1>1, <1>3, <3>1, <3>3 DEF PlacesKept
    <3> QED BY <1>3, <3>2, <3>3
  <2> QED BY <1>3, <1>4, <2>2, <2>3, <2>4, <2>5, <2>6, <2>7, <2>8 DEF PlacesKept
<1>7. CASE /\ \A i \in DOMAIN results : results[i].package # package
           /\ Len(results') = Len(results) + 1
           /\ \A i \in DOMAIN results : results'[i] = results[i]
           /\ results'[Len(results) + 1] = [package |-> package, found |-> found]
  <2>1. results'[Len(results) + 1].package = package
    BY <1>7
  <2>2. /\ \A i \in DOMAIN results' : i \in DOMAIN results \/ i = Len(results) + 1
        /\ \A i \in DOMAIN results : results'[i].package = results[i].package
    BY <1>1, <1>5, <1>7
  <2>3. Len(results') <= looked'
    BY <1>1, <1>3, <1>7 DEF PlacesKept
  <2>4. \A i \in 1 .. looked' : i < FirstRepeat' => i <= Len(results')
    <3> SUFFICES ASSUME NEW i \in 1 .. looked', i < FirstRepeat PROVE i <= Len(results')
      BY <1>2
    <3>1. CASE i \in 1 .. looked
      BY <1>1, <1>7, <3>1 DEF PlacesKept
    <3>2. CASE i = looked + 1
      <4>1. CASE looked = 0
        BY <1>1, <1>7, <3>2, <4>1
      <4>2. CASE looked > 0
        <5>1. looked \in 1 .. looked /\ looked < FirstRepeat
          BY <1>1, <1>3, <3>2, <4>2
        <5>2. looked <= Len(results)
          BY <1>1, <5>1 DEF PlacesKept
        <5> QED BY <1>1, <1>3, <1>7, <3>2, <5>2
      <4> QED BY <1>3, <4>1, <4>2
    <3> QED BY <1>3, <3>1, <3>2
  <2>5. \A i \in DOMAIN results' : i < FirstRepeat' => results'[i].package = Listed'[i]
    <3> SUFFICES ASSUME NEW i \in DOMAIN results', i < FirstRepeat
                 PROVE  results'[i].package = Listed[i]
      BY <1>2
    <3>1. CASE i \in DOMAIN results
      BY <1>1, <2>2, <3>1 DEF PlacesKept
    <3>2. CASE i = Len(results) + 1
      <4>1. Len(results) = looked
        <5>1. Len(results) <= looked
          BY <1>1 DEF PlacesKept
        <5>2. ASSUME Len(results) + 1 <= looked PROVE FALSE
          <6>1. i \in 1 .. looked
            BY <1>1, <1>3, <3>2, <5>2
          <6>2. i <= Len(results)
            BY <1>1, <6>1 DEF PlacesKept
          <6> QED BY <1>1, <3>2, <6>2
        <5>3. Len(results) \in Nat /\ looked \in Nat
          BY <1>1, <1>3
        <5> QED BY <5>1, <5>2, <5>3
      <4> QED BY <2>1, <3>2, <4>1
    <3> QED BY <2>2, <3>1, <3>2
  <2>6. \A i \in DOMAIN results' : \E j \in 1 .. looked' : results'[i].package = Listed'[j]
    <3> SUFFICES ASSUME NEW i \in DOMAIN results'
                 PROVE  \E j \in 1 .. looked + 1 : results'[i].package = Listed[j]
      BY <1>2
    <3>1. CASE i \in DOMAIN results
      <4>1. PICK j \in 1 .. looked : results[i].package = Listed[j]
        BY <1>1, <3>1 DEF PlacesKept
      <4>2. j \in 1 .. looked + 1
        BY <1>3
      <4> QED BY <2>2, <3>1, <4>1, <4>2
    <3>2. CASE i = Len(results) + 1
      <4>1. looked + 1 \in 1 .. looked + 1
        BY <1>3
      <4> QED BY <2>1, <3>2, <4>1
    <3> QED BY <2>2, <3>1, <3>2
  <2>7. \A i, j \in DOMAIN results' : results'[i].package = results'[j].package => i = j
    <3>1. \A i, j \in DOMAIN results : results[i].package = results[j].package => i = j
      BY <1>1 DEF PlacesKept
    <3> QED BY <1>7, <2>1, <2>2, <3>1
  <2>8. Len(results) + 1 \in DOMAIN results' /\ \A i \in DOMAIN results : i \in DOMAIN results'
    BY <1>1, <1>5, <1>7
  <2>9. \A j \in 1 .. looked' : \E i \in DOMAIN results' : results'[i].package = Listed'[j]
    <3> SUFFICES ASSUME NEW j \in 1 .. looked + 1
                 PROVE  \E i \in DOMAIN results' : results'[i].package = Listed[j]
      BY <1>2
    <3>1. CASE j \in 1 .. looked
      <4>1. PICK i \in DOMAIN results : results[i].package = Listed[j]
        BY <1>1, <3>1 DEF PlacesKept
      <4> QED BY <2>2, <2>8, <4>1
    <3>2. CASE j = looked + 1
      BY <2>1, <2>8, <3>2
    <3> QED BY <1>3, <3>1, <3>2
  <2>10. \A i \in DOMAIN results', j \in 1 .. looked' : results'[i].package = Listed'[j] => i <= j
    <3> SUFFICES ASSUME NEW i \in DOMAIN results', NEW j \in 1 .. looked + 1,
                        results'[i].package = Listed[j]
                 PROVE  i <= j
      BY <1>2
    <3>1. i <= looked + 1
      BY <1>1, <1>3, <1>5, <1>7 DEF PlacesKept
    <3>2. CASE j = looked + 1
      BY <3>1, <3>2
    <3>3. CASE j \in 1 .. looked /\ i \in DOMAIN results
      BY <1>1, <2>2, <3>3 DEF PlacesKept
    <3>4. CASE j \in 1 .. looked /\ i = Len(results) + 1
      <4>1. PICK k \in DOMAIN results : results[k].package = Listed[j]
        BY <1>1, <3>4 DEF PlacesKept
      <4> QED BY <1>7, <2>1, <3>4, <4>1
    <3> QED BY <1>3, <2>2, <3>2, <3>3, <3>4
  <2> QED BY <1>3, <1>4, <2>3, <2>4, <2>5, <2>6, <2>7, <2>9, <2>10 DEF PlacesKept
<1> QED BY <1>1, <1>6, <1>7, PutIs

\* An entry that is put is known, or the scanner has failed.
LEMMA LookupKeepsEntries ==
  ASSUME LookupInv, NEW package \in Packages, NEW found \in SUBSET Advisories,
         UNCHANGED repository, results' = Put(package, found), found \subseteq known[package],
         failures \subseteq failures', "scanner" \notin failures' => found = known[package]
  PROVE  EntriesKnown'
<1>1. results \in Seq(Entry) /\ EntriesKnown /\ known' = known
  BY ListedKept DEF LookupInv, LocalTypes
<1>2. /\ Len(results) \in Nat /\ DOMAIN results = 1 .. Len(results)
      /\ Len(results') \in Nat /\ DOMAIN results' = 1 .. Len(results')
  BY <1>1, PutIs
<1> SUFFICES ASSUME NEW i \in DOMAIN results'
             PROVE  /\ results'[i].found \subseteq known[results'[i].package]
                    /\ "scanner" \notin failures'
                          => results'[i].found = known[results'[i].package]
  BY <1>1 DEF EntriesKnown
<1>3. CASE /\ Len(results') = Len(results)
           /\ \A k \in DOMAIN results :
                 /\ results'[k].package = results[k].package
                 /\ results'[k].found =
                       IF results[k].package = package THEN found ELSE results[k].found
  <2>1. i \in DOMAIN results
    BY <1>2, <1>3
  <2> QED BY <1>1, <1>3, <2>1 DEF EntriesKnown
<1>4. CASE /\ Len(results') = Len(results) + 1
           /\ \A k \in DOMAIN results : results'[k] = results[k]
           /\ results'[Len(results) + 1] = [package |-> package, found |-> found]
  <2>1. i \in DOMAIN results \/ i = Len(results) + 1
    BY <1>2, <1>4
  <2>2. CASE i \in DOMAIN results
    BY <1>1, <1>4, <2>2 DEF EntriesKnown
  <2>3. CASE i = Len(results) + 1
    <3>1. results'[i].package = package /\ results'[i].found = found
      BY <1>4, <2>3
    <3> QED BY <3>1
  <2> QED BY <2>1, <2>2, <2>3
<1> QED BY <1>1, <1>3, <1>4, PutIs

LEMMA LookupStarts == LocalInit => LookupInv
<1> SUFFICES ASSUME LocalInit PROVE LookupInv
  OBVIOUS
<1>1. \A n : \A l \in Lists(n) : n \in Nat => l \in Seq(Packages)
  BY DEF Lists
<1>2. direct \in Seq(Packages) /\ transitive \in Seq(Packages)
  <2>1. MaxDirect \in Nat /\ MaxTransitive \in Nat
    BY LocalConstants
  <2> QED BY <1>1, <2>1 DEF LocalInit, DirectDependencies, TransitiveDependencies
<1>3. known \in [Packages -> SUBSET Advisories]
  BY DEF LocalInit, UpTo
<1>4. at = "preprocess" /\ looked = 0 /\ results = <<>> /\ vulnerabilities = {}
  BY DEF LocalInit
<1>5. LocalTypes
  BY <1>2, <1>3, <1>4, ListedIs DEF LocalTypes
<1>6. PlacesKept /\ EntriesKnown
  BY <1>4 DEF PlacesKept, EntriesKnown
<1> QED BY <1>4, <1>5, <1>6 DEF LookupInv, AfterLookups

\* A step that looks nothing up, and what it must keep.
LEMMA LookupsUntouched ==
  ASSUME LookupInv, UNCHANGED <<repository, looked, results>>, failures \subseteq failures',
         at' \in {"preprocess", "cve", "done"} \union AfterLookups
  PROVE  LocalTypes' /\ PlacesKept' /\ EntriesKnown' /\ Paired' = Paired /\ LookupsDone' = LookupsDone
<1>1. /\ Listed' = Listed /\ FirstRepeat' = FirstRepeat /\ Paired' = Paired
      /\ direct' = direct /\ transitive' = transitive /\ known' = known
      /\ results' = results /\ looked' = looked
  BY ListedKept
<1>2. LocalTypes' /\ PlacesKept' /\ EntriesKnown'
  BY <1>1 DEF LookupInv, LocalTypes, PlacesKept, EntriesKnown
<1> QED BY <1>1, <1>2 DEF LookupsDone

LEMMA FailuresGrow ==
  ASSUME [LocalNext]_localVars
  PROVE  failures \subseteq failures'
<1>1. CASE LocalNext
  BY <1>1 DEF LocalNext, Preprocess, PreprocessRaises, Lookup, LookupFails, LookupNext, Pair,
     SemgrepAnswers, SemgrepFails, SemgrepMissing, CodeScanned, Assemble, AssembleRaises, Reported,
     DegradedRun, DegradedRunRaises, Resolve, ResolveRaises, Decided, Migrate, Aggregate, Exit, FailAs
<1>2. CASE UNCHANGED localVars
  BY <1>2 DEF localVars
<1> QED BY <1>1, <1>2

\* After the lookups nothing touches what they left.
LEMMA LookupStep ==
  ASSUME LookupInv, [LocalNext]_localVars
  PROVE  LookupInv'
<1>1. UNCHANGED repository /\ failures \subseteq failures'
  BY RepositoryKept, FailuresGrow
<1>2. ASSUME NEW p \in Packages, NEW found \in SUBSET Advisories, LookupNext(p),
             results' = Put(p, found), found \subseteq known[p],
             "scanner" \notin failures' => found = known[p]
      PROVE  LookupInv'
  <2>1. at = "cve" /\ at' = at /\ looked < Len(Listed) /\ p = Listed[looked + 1]
        /\ looked' = looked + 1
    BY <1>2 DEF LookupNext
  <2>6. direct' # <<>>
    BY <1>1, <2>1, ListedKept DEF LookupInv
  <2>2. results' \in Seq(Entry) /\ looked' \in 0 .. Len(Listed)' /\ PlacesKept'
    BY <1>1, <1>2, <2>1, LookupKeepsPlaces
  <2>3. EntriesKnown'
    BY <1>1, <1>2, LookupKeepsEntries
  <2>4. /\ direct' \in Seq(Packages) /\ transitive' \in Seq(Packages)
        /\ known' \in [Packages -> SUBSET Advisories]
    BY <1>1, ListedKept DEF LookupInv, LocalTypes
  <2>5. LocalTypes'
    BY <2>1, <2>2, <2>4 DEF LocalTypes
  <2> QED BY <2>1, <2>2, <2>3, <2>5, <2>6 DEF LookupInv, AfterLookups
<1>3. ASSUME NEW p \in Packages, Lookup(p) PROVE LookupInv'
  <2>1. known[p] \in SUBSET Advisories
    BY DEF LookupInv, LocalTypes
  <2> QED BY <1>2, <1>3, <2>1 DEF Lookup
<1>4. ASSUME NEW p \in Packages, LookupFails(p) PROVE LookupInv'
  <2>1. "scanner" \in failures' /\ {} \in SUBSET Advisories /\ {} \subseteq known[p]
    BY <1>4 DEF LookupFails, FailAs
  <2> QED BY <1>2, <1>4, <2>1 DEF LookupFails
<1>5. ASSUME UNCHANGED <<looked, results>>, at' \in {"cve", "done"} \union AfterLookups,
             at' = "cve" => direct # <<>>,
             at' \in AfterLookups => (LookupsDone /\ vulnerabilities' = Paired)
      PROVE  LookupInv'
  <2>1. LocalTypes' /\ PlacesKept' /\ EntriesKnown' /\ Paired' = Paired /\ LookupsDone' = LookupsDone
    BY <1>1, <1>5, LookupsUntouched
  <2>2. at' # "preprocess"
    BY <1>5 DEF AfterLookups
  <2>3. direct' = direct
    BY <1>1, ListedKept
  <2> QED BY <1>5, <2>1, <2>2, <2>3 DEF LookupInv
<1>6. CASE Preprocess
  <2>1. at = "preprocess" /\ looked = 0 /\ vulnerabilities = {}
        /\ at' \in {"cve", "code"} /\ (at' = "code" <=> direct = <<>>)
    BY <1>6 DEF Preprocess, GoTo, LookupInv
  <2>2. UNCHANGED <<looked, results, vulnerabilities>>
    BY <1>6 DEF Preprocess, scan
  <2>3. results = <<>>
    BY <2>1 DEF LookupInv, LocalTypes, PlacesKept
  <2>4. Paired = {}
    BY <2>3 DEF Paired
  <2> QED BY <1>5, <2>1, <2>2, <2>4 DEF LookupsDone, AfterLookups
<1>7. CASE PreprocessRaises
  BY <1>5, <1>7 DEF PreprocessRaises, GoTo, scan, AfterLookups
<1>8. CASE Pair
  <2>1. looked = Len(Listed) /\ vulnerabilities' = Paired /\ at' = "code" /\ direct # <<>>
        /\ UNCHANGED <<looked, results>>
    BY <1>8 DEF Pair, GoTo, LookupInv
  <2> QED BY <1>5, <2>1 DEF LookupsDone, AfterLookups
<1>9. ASSUME at \in AfterLookups, at' \in {"done"} \union AfterLookups,
             UNCHANGED <<looked, results, vulnerabilities>>
      PROVE  LookupInv'
  <2>1. at' # "cve"
    BY <1>9 DEF AfterLookups
  <2> QED BY <1>5, <1>9, <2>1 DEF LookupInv
<1>10. CASE SemgrepAnswers \/ SemgrepFails \/ SemgrepMissing
  BY <1>9, <1>10 DEF SemgrepAnswers, SemgrepFails, SemgrepMissing, CodeScanned, GoTo, scan,
     AfterLookups
<1>11. CASE Assemble \/ AssembleRaises \/ DegradedRun \/ DegradedRunRaises
  BY <1>9, <1>11 DEF Assemble, AssembleRaises, DegradedRun, DegradedRunRaises, Reported, GoTo, scan,
     AfterLookups
<1>12. CASE Resolve \/ ResolveRaises \/ Migrate \/ Aggregate \/ Exit
  BY <1>9, <1>12 DEF Resolve, ResolveRaises, Decided, Migrate, Aggregate, Exit, GoTo, scan,
     AfterLookups
<1>13. CASE UNCHANGED localVars
  <2>1. LocalTypes' /\ PlacesKept' /\ EntriesKnown' /\ Paired' = Paired /\ LookupsDone' = LookupsDone
    BY <1>1, <1>13, LookupsUntouched DEF localVars, scan, LookupInv, LocalTypes
  <2> QED BY <1>1, <1>13, <2>1, ListedKept DEF localVars, scan, LookupInv
<1> QED BY <1>3, <1>4, <1>6, <1>7, <1>8, <1>10, <1>11, <1>12, <1>13 DEF LocalNext

LEMMA LookupsCorrect == LocalSpec => []LookupInv
<1>1. LookupInv /\ [LocalNext]_localVars => LookupInv'
  BY LookupStep
<1> QED BY <1>1, LookupStarts, PTL DEF LocalSpec

-----------------------------------------------------------------------------
(* Findings and packages.                                                   *)

\* Before the first repetition the entry of a package stands at its place.
LEMMA EntryAtItsPlace ==
  ASSUME LookupInv, LookupsDone, NEW i \in 1 .. FirstRepeat - 1
  PROVE  /\ i \in DOMAIN Listed
         /\ results # <<>> => i \in DOMAIN results
         /\ i \in DOMAIN results => results[i].package = Listed[i]
<1>1. /\ FirstRepeat \in 1 .. Len(Listed) + 1 /\ Len(Listed) \in Nat
      /\ DOMAIN Listed = 1 .. Len(Listed) /\ DOMAIN results = 1 .. Len(results)
      /\ Len(results) \in Nat /\ PlacesKept
  BY ListedIs, FirstRepeatIs DEF LookupInv, LocalTypes
<1>2. i \in DOMAIN Listed /\ i < FirstRepeat
  BY <1>1
<1>3. i \in DOMAIN results => results[i].package = Listed[i]
  BY <1>1, <1>2 DEF PlacesKept
<1>4. CASE looked = Len(Listed)
  BY <1>1, <1>2, <1>3, <1>4 DEF PlacesKept
<1>5. CASE looked = 0
  <2>1. results = <<>>
    BY <1>1, <1>5 DEF PlacesKept, LookupInv, LocalTypes
  <2> QED BY <1>2, <1>3, <2>1
<1> QED BY <1>4, <1>5 DEF LookupsDone

\* Where no package is listed twice, every entry stands at the place of its package.
LEMMA RegularEntries ==
  ASSUME LookupInv, FirstRepeat > Len(Listed), NEW i \in DOMAIN results
  PROVE  /\ i \in DOMAIN Listed
         /\ results[i].package = Listed[i]
         /\ results[i].found \subseteq known[Listed[i]]
         /\ "scanner" \notin failures => results[i].found = known[Listed[i]]
<1>1. /\ FirstRepeat \in 1 .. Len(Listed) + 1 /\ Len(Listed) \in Nat
      /\ DOMAIN Listed = 1 .. Len(Listed) /\ DOMAIN results = 1 .. Len(results)
      /\ Len(results) \in Nat /\ looked \in 0 .. Len(Listed) /\ Len(results) <= looked
  BY ListedIs, FirstRepeatIs DEF LookupInv, LocalTypes, PlacesKept
<1>2. i \in DOMAIN Listed /\ i < FirstRepeat
  BY <1>1
<1>3. results[i].package = Listed[i]
  BY <1>2 DEF LookupInv, PlacesKept
<1> QED BY <1>2, <1>3 DEF LookupInv, EntriesKnown

LEMMA FindingsBelongFollows ==
  ASSUME LookupInv
  PROVE  FindingsBelong
<1> SUFFICES ASSUME at = "code" PROVE FindingsBelong
  BY DEF FindingsBelong
<1>1. LookupsDone /\ vulnerabilities = Paired
  BY DEF LookupInv, AfterLookups
<1>2. ASSUME NEW i \in 1 .. FirstRepeat - 1, NEW j \in DOMAIN results,
             results[j].package = Listed[i], NEW a \in results[j].found
      PROVE  Normalised(Listed[i], DepType(i), a) \in vulnerabilities
  <2>1. results # <<>>
    BY <1>2
  <2>2. i \in DOMAIN results /\ results[i].package = Listed[i]
    BY <1>1, <1>2, <2>1, EntryAtItsPlace
  <2>3. i = j
    BY <1>2, <2>2 DEF LookupInv, PlacesKept
  <2>4. a \in results[i].found
    BY <1>2, <2>3
  <2> QED BY <1>1, <2>2, <2>4 DEF Paired
<1>3. ASSUME FirstRepeat > Len(Listed), NEW v \in vulnerabilities
      PROVE  \E a \in known[v.package] : v = Normalised(v.package, v.dep, a)
  <2>1. PICK i \in DOMAIN results :
            \E a \in results[i].found : v = Normalised(Listed[i], DepType(i), a)
    BY <1>1, <1>3 DEF Paired
  <2>2. results[i].found \subseteq known[Listed[i]]
    BY <1>3, RegularEntries
  <2>3. v.package = Listed[i] /\ v.dep = DepType(i)
    BY <2>1 DEF Normalised
  <2> QED BY <2>1, <2>2, <2>3
<1> QED BY <1>2, <1>3 DEF FindingsBelong

\* For any number of packages, listed as often as may be, and any failing lookups: what was answered
\* of a package that is not listed twice is found under it.
THEOREM FindingsBelongHolds == LocalSpec => []FindingsBelong
<1>1. LookupInv => FindingsBelong
  BY FindingsBelongFollows
<1> QED BY <1>1, LookupsCorrect, PTL

LEMMA VulnerabilitiesAreKnown ==
  ASSUME LookupInv, at \in AfterLookups, Listing = "scannable"
  PROVE  /\ vulnerabilities \subseteq Vulnerable
         /\ "scanner" \notin failures => vulnerabilities = Vulnerable
<1>1. LookupsDone /\ vulnerabilities = Paired
  BY DEF LookupInv
<1>2. /\ FirstRepeat \in 1 .. Len(Listed) + 1 /\ Len(Listed) \in Nat
      /\ DOMAIN Listed = 1 .. Len(Listed) /\ DOMAIN results = 1 .. Len(results)
      /\ Len(results) \in Nat /\ PlacesKept
  BY ListedIs, FirstRepeatIs DEF LookupInv, LocalTypes
<1>3. looked = Len(Listed) /\ FirstRepeat > Len(Listed)
  <2>1. CASE direct = <<>>
    <3>1. transitive = <<>>
      BY <2>1 DEF Listing
    <3>2. Listed = <<>>
      BY <2>1, <3>1, ListedIs DEF LookupInv, LocalTypes
    <3> QED BY <1>1, <1>2, <2>1, <3>2 DEF LookupsDone
  <2>2. CASE direct # <<>>
    BY <1>1, <1>2, <2>2 DEF LookupsDone, Listing
  <2> QED BY <2>1, <2>2
<1>4. vulnerabilities \subseteq Vulnerable
  BY <1>1, <1>3, RegularEntries DEF Paired, Vulnerable
<1>5. ASSUME "scanner" \notin failures PROVE Vulnerable \subseteq vulnerabilities
  <2>1. \A i \in DOMAIN Listed : i \in DOMAIN results
    BY <1>2, <1>3 DEF PlacesKept
  <2>2. \A i \in DOMAIN Listed : known[Listed[i]] = results[i].found
    BY <1>3, <1>5, <2>1, RegularEntries
  <2> QED BY <1>1, <2>1, <2>2 DEF Paired, Vulnerable
<1> QED BY <1>4, <1>5

\* Without a direct dependency nothing is looked up.
LEMMA NothingLookedUp ==
  ASSUME LookupInv, at \in AfterLookups, Listing = "lock_only"
  PROVE  vulnerabilities = {}
<1>1. LookupsDone /\ vulnerabilities = Paired /\ direct = <<>>
  BY DEF LookupInv, Listing
<1>2. looked = 0
  BY <1>1 DEF LookupsDone
<1>3. results = <<>>
  BY <1>2 DEF LookupInv, LocalTypes, PlacesKept
<1> QED BY <1>1, <1>3 DEF Paired

\* v is w, except that a transitive package may have become a direct one.
Shifted(v, w) ==
    /\ VerdictOf(v) = "human" <=> VerdictOf(w) = "human"
    /\ VerdictOf(w) = "block" => VerdictOf(v) = "block"

\* Without rules the engine asks for the kind of dependency last, and direct ones block.
LEMMA ShiftedKind ==
  ASSUME NEW p, NEW q, NEW a, NEW d \in {"direct", "transitive"}, NEW e \in {"direct", "transitive"},
         e = "direct" => d = "direct"
  PROVE  Shifted(Normalised(p, d, a), Normalised(q, e, a))
<1> DEFINE severity == IF a.severity \in Engine!Severity THEN a.severity ELSE "medium"
           Finding(dep) == [cve |-> "cve", severity |-> severity, cvss |-> a.cvss, path |-> <<>>,
                            fixed |-> "none", dep |-> dep]
<1>1. /\ VerdictOf(Normalised(p, d, a)) = Engine!ResolveVulnerability(Finding(d))
      /\ VerdictOf(Normalised(q, e, a)) = Engine!ResolveVulnerability(Finding(e))
  BY DEF VerdictOf, Normalised
<1>2. Engine!VulnerabilityNeedsHuman(Finding(d)) <=> Engine!VulnerabilityNeedsHuman(Finding(e))
  BY DEF Engine!VulnerabilityNeedsHuman
<1>3. ~Engine!Exempted(Finding(d)) /\ ~Engine!Exempted(Finding(e))
  BY DEF Engine!Exempted, Engine!InPathWhitelist
<1>4. Engine!BlockedByDefault(Finding(e)) => Engine!BlockedByDefault(Finding(d))
  BY DEF Engine!BlockedByDefault
<1> HIDE DEF Finding
<1> QED BY <1>1, <1>2, <1>3, <1>4 DEF Engine!ResolveVulnerability, Shifted

\* Where packages are listed twice: what is found is known of a package that stands at the same place
\* or a later one, and all that is known is found.
LEMMA VulnerabilitiesAreShifted ==
  ASSUME LookupInv, at \in AfterLookups, direct # <<>>
  PROVE  /\ \A v \in vulnerabilities : \E w \in Vulnerable : Shifted(v, w)
         /\ "scanner" \notin failures =>
               \A w \in Vulnerable : \E v \in vulnerabilities : Shifted(v, w)
<1>1. /\ vulnerabilities = Paired /\ looked = Len(Listed)
      /\ Len(Listed) \in Nat /\ DOMAIN Listed = 1 .. Len(Listed)
      /\ DOMAIN results = 1 .. Len(results) /\ Len(results) \in Nat /\ Len(direct) \in Nat
      /\ PlacesKept /\ EntriesKnown
  BY ListedIs DEF LookupInv, LookupsDone, LocalTypes
<1>2. ASSUME NEW i \in DOMAIN results, NEW k \in DOMAIN Listed, results[i].package = Listed[k],
             NEW a
      PROVE  Shifted(Normalised(Listed[i], DepType(i), a), Normalised(Listed[k], DepType(k), a))
  <2>1. i <= k /\ i \in Nat /\ k \in Nat
    BY <1>1, <1>2 DEF PlacesKept
  <2>2. DepType(k) = "direct" => DepType(i) = "direct"
    BY <1>1, <2>1 DEF DepType
  <2>3. DepType(i) \in {"direct", "transitive"} /\ DepType(k) \in {"direct", "transitive"}
    BY DEF DepType
  <2> QED BY <2>2, <2>3, ShiftedKind
<1>3. ASSUME NEW v \in vulnerabilities PROVE \E w \in Vulnerable : Shifted(v, w)
  <2>5. PICK i \in DOMAIN results :
            \E a \in results[i].found : v = Normalised(Listed[i], DepType(i), a)
    BY <1>1 DEF Paired
  <2>1. PICK a \in results[i].found : v = Normalised(Listed[i], DepType(i), a)
    BY <2>5
  <2>2. PICK k \in 1 .. looked : results[i].package = Listed[k]
    BY <1>1 DEF PlacesKept
  <2>3. k \in DOMAIN Listed /\ a \in known[Listed[k]]
    BY <1>1, <2>2 DEF EntriesKnown
  <2>4. Normalised(Listed[k], DepType(k), a) \in Vulnerable
    BY <2>3 DEF Vulnerable
  <2> QED BY <1>2, <2>1, <2>2, <2>3, <2>4
<1>4. ASSUME "scanner" \notin failures, NEW w \in Vulnerable
      PROVE  \E v \in vulnerabilities : Shifted(v, w)
  <2>5. PICK k \in DOMAIN Listed :
            \E a \in known[Listed[k]] : w = Normalised(Listed[k], DepType(k), a)
    BY DEF Vulnerable
  <2>1. PICK a \in known[Listed[k]] : w = Normalised(Listed[k], DepType(k), a)
    BY <2>5
  <2>2. PICK i \in DOMAIN results : results[i].package = Listed[k]
    BY <1>1 DEF PlacesKept
  <2>3. a \in results[i].found
    BY <1>1, <1>4, <2>1, <2>2 DEF EntriesKnown
  <2>4. Normalised(Listed[i], DepType(i), a) \in vulnerabilities
    BY <1>1, <2>3 DEF Paired
  <2> QED BY <1>2, <2>1, <2>2, <2>4
<1> QED BY <1>3, <1>4

\* Shifted findings show what is there, and may block in addition; a part of them shows part of it.
LEMMA SeesShifted ==
  ASSUME NEW V, NEW W, NEW I, NEW J, J \subseteq I,
         \A v \in V : \E w \in W : Shifted(v, w)
  PROVE  /\ Sees(V \union J) = "human" => Sees(W \union I) = "human"
         /\ J = I /\ (\A w \in W : \E v \in V : Shifted(v, w)) =>
               \/ Sees(V \union J) = Sees(W \union I)
               \/ Sees(W \union I) = "clean" /\ Sees(V \union J) = "block"
<1>1. ASSUME NEW S
      PROVE  /\ Sees(S) = "human" <=> \E f \in S : VerdictOf(f) = "human"
             /\ Sees(S) = "block" <=> /\ \E f \in S : VerdictOf(f) = "block"
                                      /\ ~\E f \in S : VerdictOf(f) = "human"
             /\ Sees(S) \in {"clean", "block", "human"}
  BY DEF Sees
<1> HIDE DEF Sees
<1>2. Sees(V \union J) = "human" => Sees(W \union I) = "human"
  BY <1>1 DEF Shifted
<1>3. ASSUME J = I, \A w \in W : \E v \in V : Shifted(v, w)
      PROVE  \/ Sees(V \union J) = Sees(W \union I)
             \/ Sees(W \union I) = "clean" /\ Sees(V \union J) = "block"
  <2>1. Sees(W \union I) = "human" => Sees(V \union J) = "human"
    BY <1>1, <1>3 DEF Shifted
  <2>2. Sees(W \union I) = "block" => Sees(V \union J) \in {"block", "human"}
    BY <1>1, <1>3 DEF Shifted
  <2> QED BY <1>1, <1>2, <2>1, <2>2
<1> QED BY <1>2, <1>3

\* What the scanners found shows what the abstraction says of such a list of packages, and part of
\* it after a failure.
LEMMA ScanIsSeen ==
  ASSUME LookupInv, CodeInv, at = "assemble"
  PROVE  /\ "scanner" \notin failures =>
               Sees(vulnerabilities \union issues) \in Verdicts!SeenIn(Abstract)
         /\ \E seen \in Verdicts!SeenIn(Abstract) :
               Sees(vulnerabilities \union issues) \in Verdicts!PartOf(seen)
<1> DEFINE all == ClassifiedAll(matches)
           found == vulnerabilities \union issues
<1>1. /\ issues \subseteq all /\ ("scanner" \notin failures => issues = all)
      /\ Truth = Sees(Vulnerable \union all)
  BY DEF CodeInv, Truth, Complete
<1>2. at \in AfterLookups
  BY DEF AfterLookups
<1>3. /\ Sees(found) \in {"clean", "block", "human"} /\ Truth \in {"clean", "block", "human"}
      /\ found \subseteq Vulnerable \union all => Sees(found) \in Verdicts!PartOf(Truth)
  BY <1>1, SeesPart
<1> HIDE DEF all, found
<1>4. CASE Listing = "scannable"
  <2>1. Verdicts!SeenIn(Abstract) = {Truth}
    BY <1>4 DEF Verdicts!SeenIn, Abstract
  <2>2. found \subseteq Vulnerable \union all
    BY <1>1, <1>2, <1>4, VulnerabilitiesAreKnown DEF found
  <2>3. "scanner" \notin failures => found = Vulnerable \union all
    BY <1>1, <1>2, <1>4, VulnerabilitiesAreKnown DEF found
  <2> QED BY <1>1, <1>3, <2>1, <2>2, <2>3 DEF found
<1>5. CASE Listing = "lock_only"
  <2>1. Verdicts!SeenIn(Abstract) = Verdicts!PartOf(Truth)
    BY <1>5 DEF Verdicts!SeenIn, Abstract
  <2>2. found \subseteq Vulnerable \union all
    BY <1>1, <1>2, <1>5, NothingLookedUp DEF found
  <2>3. Sees(found) \in Verdicts!PartOf(Truth) /\ Truth \in Verdicts!PartOf(Truth)
    BY <1>3, <2>2 DEF Verdicts!PartOf
  <2> QED BY <2>1, <2>3 DEF found
<1>6. CASE Listing = "repeated"
  <2>1. Verdicts!SeenIn(Abstract) = {Truth} \union (IF Truth = "clean" THEN {"block"} ELSE {})
    BY <1>6 DEF Verdicts!SeenIn, Abstract
  <2>2. direct # <<>>
    BY <1>6 DEF Listing
  <2>6. /\ \A v \in vulnerabilities : \E w \in Vulnerable : Shifted(v, w)
        /\ "scanner" \notin failures =>
              \A w \in Vulnerable : \E v \in vulnerabilities : Shifted(v, w)
    BY <1>2, <2>2, VulnerabilitiesAreShifted
  <2>7. /\ Sees(vulnerabilities \union issues) = "human" => Sees(Vulnerable \union all) = "human"
        /\ issues = all /\ (\A w \in Vulnerable : \E v \in vulnerabilities : Shifted(v, w)) =>
              \/ Sees(vulnerabilities \union issues) = Sees(Vulnerable \union all)
              \/ /\ Sees(Vulnerable \union all) = "clean"
                 /\ Sees(vulnerabilities \union issues) = "block"
    BY ONLY <1>1, <2>6, SeesShifted
  <2>3. Sees(found) = "human" => Truth = "human"
    BY <1>1, <2>7 DEF found
  <2>4. "scanner" \notin failures =>
           Sees(found) = Truth \/ (Truth = "clean" /\ Sees(found) = "block")
    BY <1>1, <2>6, <2>7 DEF found
  <2>5. \E seen \in Verdicts!SeenIn(Abstract) : Sees(found) \in Verdicts!PartOf(seen)
    <3>1. CASE Truth = "clean"
      BY <1>3, <2>1, <2>3, <3>1 DEF Verdicts!PartOf
    <3>2. CASE Truth # "clean"
      BY <1>3, <2>1, <2>3, <3>2 DEF Verdicts!PartOf
    <3> QED BY <3>1, <3>2
  <2> QED BY <2>1, <2>4, <2>5 DEF found
<1> QED BY <1>4, <1>5, <1>6 DEF Listing

-----------------------------------------------------------------------------
(* The verdict.                                                             *)

\* Failures only add outcomes.
LEMMA OutcomesGrow ==
  ASSUME failures \subseteq failures'
  PROVE  /\ \A r : Verdicts!ConflictOutcomes(r) \subseteq Verdicts!ConflictOutcomes(r)'
         /\ \A d, m : Verdicts!ReportOutcomes(d, m) \subseteq Verdicts!ReportOutcomes(d, m)'
<1>1. ASSUME NEW r
      PROVE  Verdicts!ConflictOutcomes(r) \subseteq Verdicts!ConflictOutcomes(r)'
  BY DEF Verdicts!ConflictOutcomes, Verdicts!Execute
<1>2. ASSUME NEW d, NEW m
      PROVE  Verdicts!ReportOutcomes(d, m) \subseteq Verdicts!ReportOutcomes(d, m)'
  BY DEF Verdicts!ReportOutcomes, Verdicts!Execute
<1> QED BY <1>1, <1>2

\* Every kind of report is one of the outcomes the abstraction has for the failures there were.
LEMMA KindsAreOutcomes ==
  ASSUME ReportKinds
  PROVE  Security \in Verdicts!SecurityOutcomes(Abstract, "full")
<1> DEFINE seen == Verdicts!SeenIn(Abstract)
           listed == IF Listing = "lock_only" THEN "listing" ELSE "none"
<1>1. CASE /\ report.present /\ Sees(Reporting) \in Verdicts!SeenIn(Abstract)
           /\ report.degraded = FALSE /\ "scanner" \notin failures /\ "security" \notin failures
  <2>1. Security = [sees |-> Sees(Reporting), degraded |-> FALSE, gap |-> listed]
    BY <1>1 DEF Security, Reporting, Gap
  <2>2. Security \in [sees : seen, degraded : {FALSE}, gap : {listed}]
    BY <1>1, <2>1
  <2>3. Abstract.listing = Listing
    BY DEF Abstract
  <2> QED BY <2>2, <2>3 DEF Verdicts!SecurityOutcomes, Verdicts!Execute, Verdicts!SecurityRun
<1>2. CASE /\ report.present /\ report.degraded \in BOOLEAN
           /\ \E s \in Verdicts!SeenIn(Abstract) : Sees(Reporting) \in Verdicts!PartOf(s)
           /\ "scanner" \in failures /\ "security" \notin failures
  <2>1. Security = [sees |-> Sees(Reporting), degraded |-> report.degraded, gap |-> "scanner"]
    BY <1>2 DEF Security, Reporting, Gap
  <2>2. Sees(Reporting) \in UNION {Verdicts!PartOf(s) : s \in seen}
    BY <1>2
  <2>3. Security \in [sees : UNION {Verdicts!PartOf(s) : s \in seen}, degraded : BOOLEAN,
                      gap : {"scanner"}]
    BY <1>2, <2>1, <2>2
  <2> QED BY <1>2, <2>3 DEF Verdicts!SecurityOutcomes, Verdicts!Execute, Verdicts!SecurityRun
<1>3. CASE /\ report.present /\ Reporting = {} /\ report.degraded = TRUE
           /\ "security" \in failures
  <2>1. Security = [sees |-> Sees({}), degraded |-> TRUE, gap |-> "agent"]
    BY <1>3 DEF Security, Reporting, Gap
  <2>2. Sees({}) \in Verdicts!PartOf(Abstract.truth)
    BY SeesPart DEF Truth, Abstract
  <2>3. Security \in [sees : Verdicts!PartOf(Abstract.truth), degraded : {TRUE}, gap : {"agent"}]
    BY <2>1, <2>2
  <2> QED BY <1>3, <2>3 DEF Verdicts!SecurityOutcomes, Verdicts!Execute,
        Verdicts!SecurityDegradedRun
<1>4. CASE report = NoFindings /\ {"security", "security_twice"} \subseteq failures
  <2>1. Security = Verdicts!NoSecurityReport
    BY <1>4 DEF Security, NoFindings, Gap, Verdicts!NoSecurityReport
  <2> QED BY <1>4, <2>1 DEF Verdicts!SecurityOutcomes, Verdicts!Execute
<1> QED BY <1>1, <1>2, <1>3, <1>4 DEF ReportKinds

\* The code scan reports what there is, or part of it after a failure.
LEMMA CodeStep ==
  ASSUME LookupInv, CodeInv, [LocalNext]_localVars
  PROVE  CodeInv'
<1>1. UNCHANGED repository /\ failures \subseteq failures'
  BY RepositoryKept, FailuresGrow
<1>2. ClassifiedAll(matches)' = ClassifiedAll(matches)
  BY <1>1, ListedKept DEF ClassifiedAll, Classified
<1>3. CASE Preprocess \/ PreprocessRaises \/ Pair \/ \E p \in Packages : Lookup(p) \/ LookupFails(p)
  <2>1. /\ at \in {"preprocess", "cve"} /\ at' \notin {"assemble", "degraded_run"}
        /\ failures' \subseteq failures \union {"clone", "scanner"}
    BY <1>3 DEF Preprocess, PreprocessRaises, Pair, Lookup, LookupFails, LookupNext, GoTo, FailAs
  <2> QED BY <2>1 DEF CodeInv
<1>4. CASE SemgrepAnswers
  <2>1. /\ at = "code" /\ at' = "assemble" /\ failures' = failures
        /\ issues' = ClassifiedAll(matches) /\ degraded' = FALSE
    BY <1>4 DEF SemgrepAnswers, CodeScanned, GoTo
  <2> QED BY <1>2, <2>1 DEF CodeInv
<1>5. CASE SemgrepFails
  <2>1. /\ at = "code" /\ at' = "assemble" /\ degraded' \in BOOLEAN
        /\ failures' = failures \union {"scanner"}
    BY <1>5 DEF SemgrepFails, CodeScanned, GoTo, FailAs
  <2>2. PICK part \in SUBSET matches : issues' = ClassifiedAll(part)
    BY <1>5 DEF SemgrepFails, CodeScanned
  <2>3. issues' \subseteq ClassifiedAll(matches)
    BY <2>2 DEF ClassifiedAll
  <2> QED BY <1>2, <2>1, <2>3 DEF CodeInv
<1>6. CASE SemgrepMissing \/ AssembleRaises
  BY <1>6 DEF SemgrepMissing, AssembleRaises, GoTo, FailAs, CodeInv
<1>7. CASE \/ Assemble \/ DegradedRun \/ DegradedRunRaises \/ Resolve \/ ResolveRaises
           \/ Migrate \/ Aggregate \/ Exit
  <2>1. at' \notin {"preprocess", "cve", "code", "assemble", "degraded_run"}
    BY <1>7 DEF Assemble, DegradedRun, DegradedRunRaises, Resolve, ResolveRaises, Decided, Migrate,
       Aggregate, Exit, GoTo
  <2> QED BY <2>1 DEF CodeInv
<1>8. CASE UNCHANGED localVars
  BY <1>2, <1>8 DEF localVars, scan, CodeInv
<1> QED BY <1>3, <1>4, <1>5, <1>6, <1>7, <1>8 DEF LocalNext

\* No agent after the security agent fails in its name.
LEMMA ScanFailuresKept ==
  ASSUME [LocalNext]_localVars, PastReport
  PROVE  /\ "scanner" \in failures' <=> "scanner" \in failures
         /\ "security" \in failures' <=> "security" \in failures
<1>1. CASE Resolve \/ ResolveRaises \/ Migrate \/ Aggregate \/ Exit
  BY <1>1 DEF Resolve, ResolveRaises, Migrate, Aggregate, Exit, FailAs
<1>2. CASE \/ Preprocess \/ PreprocessRaises \/ Pair \/ SemgrepAnswers \/ SemgrepFails
           \/ SemgrepMissing \/ Assemble \/ AssembleRaises \/ DegradedRun \/ DegradedRunRaises
           \/ \E p \in Packages : Lookup(p) \/ LookupFails(p)
  BY <1>2 DEF Preprocess, PreprocessRaises, Pair, SemgrepAnswers, SemgrepFails, SemgrepMissing,
     CodeScanned, Assemble, AssembleRaises, DegradedRun, DegradedRunRaises, Lookup, LookupFails,
     LookupNext, GoTo, PastReport, Assessed
<1>3. CASE UNCHANGED localVars
  BY <1>3 DEF localVars
<1> QED BY <1>1, <1>2, <1>3 DEF LocalNext

\* A kind of report remains one.
LEMMA KindsKept ==
  ASSUME [LocalNext]_localVars, UNCHANGED report, PastReport, ReportKinds
  PROVE  ReportKinds'
<1>1. UNCHANGED repository /\ failures \subseteq failures'
  BY RepositoryKept, FailuresGrow
<1>2. Abstract' = Abstract /\ Reporting' = Reporting /\ report' = report
  BY <1>1, ListedKept DEF Reporting, Abstract
<1>3. /\ Sees(Reporting)' = Sees(Reporting)
      /\ Verdicts!SeenIn(Abstract)' = Verdicts!SeenIn(Abstract)
      /\ \A s : Verdicts!PartOf(s)' = Verdicts!PartOf(s)
      /\ NoFindings' = NoFindings
  BY <1>2 DEF Verdicts!SeenIn, Verdicts!PartOf, NoFindings, Sees
<1> HIDE DEF Reporting, Abstract
<1> QED BY <1>1, <1>2, <1>3, ScanFailuresKept DEF ReportKinds

\* The report is assembled of what the scanners found, or is the fallback's.
LEMMA ReportStep ==
  ASSUME LookupInv, CodeInv, ReportInv, [LocalNext]_localVars
  PROVE  ReportInv'
<1>1. UNCHANGED repository /\ failures \subseteq failures'
  BY RepositoryKept, FailuresGrow
<1>2. Abstract' = Abstract
  BY <1>1, ListedKept DEF Abstract
<1>3. ASSUME PastReport, UNCHANGED report PROVE ReportInv'
  <2>1. NoFindings' = NoFindings
    BY DEF NoFindings
  <2> QED BY <1>3, <2>1, KindsKept DEF ReportInv
<1>4. ASSUME ~PastReport' PROVE ReportInv'
  BY <1>4 DEF ReportInv
<1>5. CASE \/ Preprocess \/ PreprocessRaises \/ Pair \/ SemgrepAnswers \/ SemgrepFails
           \/ SemgrepMissing \/ AssembleRaises
           \/ \E p \in Packages : Lookup(p) \/ LookupFails(p)
  <2>1. ~PastReport'
    BY <1>5 DEF Preprocess, PreprocessRaises, Pair, SemgrepAnswers, SemgrepFails, SemgrepMissing,
       CodeScanned, AssembleRaises, Lookup, LookupFails, LookupNext, GoTo, FailAs, PastReport, Assessed
  <2> QED BY <1>4, <2>1
<1>6. CASE Assemble
  <2>1. /\ at = "assemble" /\ failures' = failures
        /\ report' = [present |-> TRUE, vulnerabilities |-> vulnerabilities, issues |-> issues,
                      degraded |-> degraded]
    BY <1>6 DEF Assemble, Reported, GoTo
  <2>2. /\ report'.present /\ report'.degraded = degraded
        /\ Reporting' = vulnerabilities \union issues
    BY <2>1 DEF Reporting
  <2>3. /\ "security" \notin failures' /\ degraded \in BOOLEAN
        /\ "scanner" \notin failures => ~degraded
    BY <2>1 DEF CodeInv
  <2>4. /\ Verdicts!SeenIn(Abstract)' = Verdicts!SeenIn(Abstract)
        /\ \A s : Verdicts!PartOf(s)' = Verdicts!PartOf(s)
        /\ Sees(Reporting)' = Sees(vulnerabilities \union issues)
    BY <1>2, <2>2 DEF Verdicts!SeenIn, Verdicts!PartOf, Sees
  <2>5. /\ "scanner" \notin failures => Sees(Reporting)' \in Verdicts!SeenIn(Abstract)'
        /\ \E s \in Verdicts!SeenIn(Abstract)' : Sees(Reporting)' \in Verdicts!PartOf(s)'
    BY <2>1, <2>4, ScanIsSeen
  <2>6. ReportKinds'
    BY <2>1, <2>2, <2>3, <2>5 DEF ReportKinds
  <2> QED BY <2>2, <2>6 DEF ReportInv
<1>7. CASE DegradedRun
  <2>1. /\ "security" \in failures /\ failures' = failures
        /\ report' = [NoFindings EXCEPT !.present = TRUE, !.degraded = TRUE]
    BY <1>7 DEF DegradedRun, Reported, GoTo, CodeInv
  <2>2. report'.present /\ report'.degraded = TRUE /\ Reporting' = {}
    BY <2>1 DEF NoFindings, Reporting
  <2> QED BY <2>1, <2>2 DEF ReportInv, ReportKinds
<1>8. CASE DegradedRunRaises
  <2>1. /\ "security" \in failures /\ failures' = failures \union {"security_twice"}
        /\ report' = NoFindings
    BY <1>8 DEF DegradedRunRaises, Reported, GoTo, CodeInv, FailAs
  <2>2. NoFindings' = NoFindings
    BY DEF NoFindings
  <2> QED BY <2>1, <2>2 DEF ReportInv, ReportKinds
<1>9. CASE Resolve \/ ResolveRaises \/ Migrate \/ Aggregate \/ Exit
  <2>1. PastReport /\ UNCHANGED report
    BY <1>9 DEF Resolve, ResolveRaises, Decided, Migrate, Aggregate, Exit, GoTo, PastReport, Assessed
  <2> QED BY <1>3, <2>1
<1>10. CASE UNCHANGED localVars
  <2>1. PastReport' = PastReport /\ UNCHANGED report
    BY <1>10 DEF localVars, PastReport, Assessed
  <2> QED BY <1>3, <1>4, <2>1
<1> QED BY <1>5, <1>6, <1>7, <1>8, <1>9, <1>10 DEF LocalNext

\* The conflict agent's fallback blocks what it was given: nothing, if its report shows nothing.
LEMMA FallbackBlocks ==
  ASSUME report.present \/ report = NoFindings, NEW found, found = (Reporting # {})
  PROVE  [made |-> TRUE, blocking |-> found, blocks |-> found, paused |-> FALSE]
            \in Verdicts!ConflictDegradedRun(Security)
<1>1. found \in BOOLEAN
  OBVIOUS
<1>2. CASE Security.sees = "nothing"
  <2>1. report = NoFindings
    <3>1. report.present => Security.sees = Sees(Reporting)
      BY DEF Security, Reporting
    <3>2. Sees(Reporting) # "nothing"
      BY SeesPart
    <3> QED BY <1>2, <3>1, <3>2
  <2>2. found = FALSE
    BY <2>1 DEF NoFindings, Reporting
  <2> QED BY <1>2, <2>2 DEF Verdicts!ConflictDegradedRun
<1>3. CASE Security.sees = "clean"
  BY <1>1, <1>3 DEF Verdicts!ConflictDegradedRun
<1>4. CASE Security.sees \notin {"nothing", "clean"}
  <2>1. report.present /\ Security.sees = Sees(Reporting)
    BY <1>4 DEF Security, Reporting, NoFindings
  <2>2. Reporting # {}
    BY <1>4, <2>1, SeesPart
  <2> QED BY <1>4, <2>2 DEF Verdicts!ConflictDegradedRun
<1> QED BY <1>2, <1>3, <1>4

\* Each agent hands on one of its outcomes, and none is touched afterwards.
LEMMA VerdictStep ==
  ASSUME ReportInv, VerdictInv, [LocalNext]_localVars
  PROVE  VerdictInv'
<1>1. failures \subseteq failures'
  BY FailuresGrow
<1>2. ASSUME UNCHANGED report, PastReport PROVE Security' = Security
  <2>1. Listing' = Listing
    BY RepositoryKept, ListedKept
  <2>2. Gap' = Gap
    BY <1>2, <2>1, ScanFailuresKept DEF Gap
  <2>3. Sees(report.vulnerabilities \union report.issues)'
          = Sees(report.vulnerabilities \union report.issues)
    BY <1>2 DEF Sees
  <2> QED BY <1>2, <2>2, <2>3 DEF Security
<1>3. CASE \/ Preprocess \/ PreprocessRaises \/ Pair \/ SemgrepAnswers \/ SemgrepFails
           \/ SemgrepMissing \/ Assemble \/ AssembleRaises \/ DegradedRun \/ DegradedRunRaises
           \/ \E p \in Packages : Lookup(p) \/ LookupFails(p)
  <2>1. at' \notin {"migrate", "report", "exit"} /\ (at' = "done" => "clone" \in failures')
    BY <1>3 DEF Preprocess, PreprocessRaises, Pair, SemgrepAnswers, SemgrepFails, SemgrepMissing,
       CodeScanned, Assemble, AssembleRaises, DegradedRun, DegradedRunRaises, Lookup, LookupFails,
       LookupNext, GoTo, FailAs
  <2> QED BY <2>1 DEF VerdictInv, PastReport, Assessed
<1>4. ASSUME at' = "migrate", decision' \in Verdicts!ConflictOutcomes(Security)' PROVE VerdictInv'
  BY <1>4 DEF VerdictInv
<1>5. CASE Resolve
  <2>1. at' = "migrate" /\ UNCHANGED report /\ decision' = Verdicts!ConflictRun(Security)
    BY <1>5 DEF Resolve, Decided, GoTo
  <2>4. PastReport
    BY <1>5 DEF Resolve, Decided, GoTo, PastReport, Assessed
  <2>2. decision' = Verdicts!ConflictRun(Security)'
    BY <1>2, <2>1, <2>4 DEF Verdicts!ConflictRun
  <2>3. decision' \in Verdicts!ConflictOutcomes(Security)'
    BY <2>2 DEF Verdicts!ConflictOutcomes, Verdicts!Execute
  <2> QED BY <1>4, <2>1, <2>3
<1>6. CASE ResolveRaises
  <2>1. at = "conflict" /\ at' = "migrate" /\ UNCHANGED report /\ "conflict" \in failures'
    BY <1>6 DEF ResolveRaises, Decided, GoTo, FailAs
  <2>2. report.present \/ report = NoFindings
    BY <2>1 DEF ReportInv, PastReport, Assessed
  <2>3. ASSUME NEW found, found = (Reporting # {}),
               decision' = [made |-> TRUE, blocking |-> found, blocks |-> found, paused |-> FALSE]
        PROVE  decision' \in Verdicts!ConflictOutcomes(Security)'
    <3>1. decision' \in Verdicts!ConflictDegradedRun(Security)
      BY <2>2, <2>3, FallbackBlocks
    <3>2. decision' \in Verdicts!ConflictDegradedRun(Security)'
      BY <1>2, <2>1, <3>1 DEF Verdicts!ConflictDegradedRun, PastReport, Assessed
    <3> QED BY <2>1, <3>2 DEF Verdicts!ConflictOutcomes, Verdicts!Execute
  <2>4. ASSUME decision' = Verdicts!NoConflictDecision, "conflict_twice" \in failures'
        PROVE  decision' \in Verdicts!ConflictOutcomes(Security)'
    BY <2>4 DEF Verdicts!ConflictOutcomes, Verdicts!Execute, Verdicts!NoConflictDecision
  <2>5. \/ decision' = [made |-> TRUE, blocking |-> Reporting # {}, blocks |-> Reporting # {},
                         paused |-> FALSE]
        \/ decision' = Verdicts!NoConflictDecision /\ "conflict_twice" \in failures'
    BY <1>6 DEF ResolveRaises, Decided, FailAs, Reporting
  <2> QED BY <1>4, <2>1, <2>3, <2>4, <2>5
<1>7. ASSUME UNCHANGED <<report, decision>>, at # "conflict", PastReport
      PROVE  decision' \in Verdicts!ConflictOutcomes(Security)'
  <2>1. decision \in Verdicts!ConflictOutcomes(Security)
    BY <1>7 DEF VerdictInv
  <2>2. decision \in Verdicts!ConflictOutcomes(Security)'
    BY <1>1, <1>2, <1>7, <2>1, OutcomesGrow
  <2> QED BY <1>7, <2>2
<1>8. CASE Migrate
  <2>1. at = "migrate" /\ at' = "report" /\ UNCHANGED <<report, decision>>
    BY <1>8 DEF Migrate, GoTo
  <2> QED BY <1>7, <2>1 DEF VerdictInv, PastReport, Assessed
<1>9. CASE Aggregate
  <2>1. at = "report" /\ at' = "exit" /\ UNCHANGED <<report, decision, migration>>
    BY <1>9 DEF Aggregate, GoTo
  <2>2. ReporterInput' = ReporterInput
    BY <1>2, <2>1 DEF ReporterInput, PastReport, Assessed
  <2>3. \/ aggregated' = Verdicts!ReportRun(ReporterInput, migration)
        \/ /\ aggregated' = Verdicts!ReportDegradedRun(ReporterInput)
           /\ "reporter" \in failures'
        \/ /\ aggregated' = [Verdicts!NoReport EXCEPT !.kind = "empty"]
           /\ "reporter_twice" \in failures'
    BY <1>9 DEF Aggregate, FailAs
  <2>4. aggregated' \in Verdicts!ReportOutcomes(ReporterInput, migration)'
    BY <2>1, <2>2, <2>3 DEF Verdicts!ReportOutcomes, Verdicts!Execute, Verdicts!ReportRun,
       Verdicts!ReportDegradedRun, Verdicts!NoReport, Verdicts!NoConflictDecision
  <2> QED BY <1>7, <2>1, <2>4 DEF VerdictInv, PastReport, Assessed
<1>10. CASE Exit
  <2>1. at = "exit" /\ at' = "done" /\ exit' = {ExitCode} /\ UNCHANGED <<report, decision>>
    BY <1>10 DEF Exit, GoTo
  <2>2. ExitCode' = ExitCode
    BY <2>1 DEF ExitCode
  <2> QED BY <1>7, <2>1, <2>2 DEF VerdictInv, PastReport, Assessed
<1>11. CASE UNCHANGED localVars
  <2>1. UNCHANGED <<at, report, decision, migration, aggregated, exit, failures>>
    BY <1>11 DEF localVars
  <2>2. /\ PastReport => Security' = Security /\ ReporterInput' = ReporterInput
        /\ ExitCode' = ExitCode
    BY <1>2, <2>1 DEF ReporterInput, ExitCode
  <2>3. at # "conflict" /\ PastReport => decision' \in Verdicts!ConflictOutcomes(Security)'
    BY <1>7, <2>1
  <2>4. at = "exit" => aggregated' \in Verdicts!ReportOutcomes(ReporterInput, migration)'
    BY <1>1, <2>1, <2>2, OutcomesGrow DEF VerdictInv, PastReport, Assessed
  <2> QED BY <2>1, <2>2, <2>3, <2>4 DEF VerdictInv, PastReport, Assessed
<1> QED BY <1>3, <1>5, <1>6, <1>8, <1>9, <1>10, <1>11 DEF LocalNext

LEMMA LocalCorrect == LocalSpec => []LocalInv
<1>1. LocalInit => CodeInv /\ ReportInv /\ VerdictInv
  BY DEF LocalInit, CodeInv, ReportInv, VerdictInv, PastReport, Assessed
<1>2. LookupInv /\ CodeInv /\ ReportInv /\ VerdictInv /\ [LocalNext]_localVars
        => CodeInv' /\ ReportInv' /\ VerdictInv'
  BY CodeStep, ReportStep, VerdictStep
<1> QED BY <1>1, <1>2, LookupsCorrect, PTL DEF LocalSpec, LocalInv

\* Whatever the repository and whatever fails: each stage of the detailed run comes to one of the
\* outcomes that the abstraction has for what failed.
THEOREM RunIsAbstractedHolds == LocalSpec => []RunIsAbstracted
<1>1. LocalInv => RunIsAbstracted
  <2> SUFFICES ASSUME LocalInv PROVE RunIsAbstracted
    OBVIOUS
  <2>1. Assessed => Security \in Verdicts!SecurityOutcomes(Abstract, "full")
    BY KindsAreOutcomes DEF LocalInv, ReportInv, PastReport
  <2>2. at \in {"migrate", "report", "exit"} => decision \in Verdicts!ConflictOutcomes(Security)
    BY DEF LocalInv, VerdictInv, PastReport, Assessed
  <2>3. at = "exit" => aggregated \in Verdicts!ReportOutcomes(ReporterInput, migration)
    BY DEF LocalInv, VerdictInv
  <2> QED BY <2>1, <2>2, <2>3 DEF RunIsAbstracted, Abstract
<1> QED BY <1>1, LocalCorrect, PTL

\* What a report of each kind shows of a repository.
LEMMA KindsTell ==
  ASSUME ReportKinds
  PROVE  /\ Truth = "clean" => Security.sees \in {"clean", "nothing"} \/ Listing = "repeated"
         /\ Truth # "clean" /\ Security.sees \in {"clean", "nothing"} =>
               failures \intersect {"scanner", "security"} # {} \/ Listing = "lock_only"
<1>1. report.present => Security.sees = Sees(Reporting)
  BY DEF Security, Reporting
<1>2. report = NoFindings => Security.sees = "nothing"
  BY DEF Security, NoFindings
<1>3. Truth \in {"clean", "block", "human"} /\ Sees({}) = "clean"
      /\ Sees(Reporting) \in {"clean", "block", "human"}
  BY SeesPart DEF Truth
<1>4. Listing \in {"scannable", "lock_only", "repeated"}
  BY DEF Listing
<1>5. /\ Listing = "scannable" => Verdicts!SeenIn(Abstract) = {Truth}
      /\ Listing = "lock_only" => Verdicts!SeenIn(Abstract) = Verdicts!PartOf(Truth)
      /\ Listing = "repeated" =>
            Verdicts!SeenIn(Abstract) = {Truth} \union (IF Truth = "clean" THEN {"block"} ELSE {})
  BY DEF Verdicts!SeenIn, Abstract
<1>6. Verdicts!PartOf("clean") = {"clean"}
  BY DEF Verdicts!PartOf
<1>7. ASSUME Truth = "clean", Listing # "repeated"
      PROVE  Security.sees \in {"clean", "nothing"}
  <2>1. Verdicts!SeenIn(Abstract) = {"clean"}
    BY <1>4, <1>5, <1>6, <1>7
  <2> QED BY <1>1, <1>2, <1>3, <1>6, <2>1 DEF ReportKinds
<1>8. ASSUME Truth # "clean", Security.sees \in {"clean", "nothing"}, Listing # "lock_only"
      PROVE  failures \intersect {"scanner", "security"} # {}
  <2>1. "clean" \notin Verdicts!SeenIn(Abstract)
    BY <1>4, <1>5, <1>8
  <2> QED BY <1>1, <1>3, <1>8, <2>1 DEF ReportKinds
<1> QED BY <1>7, <1>8

\* A preprocessing that raises ends the process at once.
RaisedExits == "clone" \in failures => at = "done" /\ exit = {1}

LEMMA RaisedExitsHolds == LocalSpec => []RaisedExits
<1>1. LocalInit => RaisedExits
  BY DEF LocalInit, RaisedExits
<1>2. RaisedExits /\ [LocalNext]_localVars => RaisedExits'
  <2> SUFFICES ASSUME RaisedExits, [LocalNext]_localVars PROVE RaisedExits'
    OBVIOUS
  <2>1. CASE PreprocessRaises
    BY <2>1 DEF PreprocessRaises, GoTo, RaisedExits
  <2>2. CASE UNCHANGED localVars
    BY <2>2 DEF localVars, RaisedExits
  <2>3. CASE LocalNext /\ ~PreprocessRaises
    <3>1. at # "done"
      BY <2>3 DEF LocalNext, Preprocess, Lookup, LookupFails, LookupNext, Pair, SemgrepAnswers,
         SemgrepFails, SemgrepMissing, CodeScanned, Assemble, AssembleRaises, DegradedRun,
         DegradedRunRaises, Resolve, ResolveRaises, Decided, Migrate, Aggregate, Exit, GoTo
    <3>2. "clone" \notin failures
      BY <3>1 DEF RaisedExits
    <3>3. "clone" \in failures' => "clone" \in failures
      BY <2>3 DEF LocalNext, Preprocess, Lookup, LookupFails, LookupNext, Pair, SemgrepAnswers,
         SemgrepFails, SemgrepMissing, CodeScanned, Assemble, AssembleRaises, DegradedRun,
         DegradedRunRaises, Resolve, ResolveRaises, Decided, Migrate, Aggregate, Exit, FailAs
    <3> QED BY <3>2, <3>3 DEF RaisedExits
  <2> QED BY <2>1, <2>2, <2>3
<1> QED BY <1>1, <1>2, PTL DEF LocalSpec

\* Whatever packages are listed and whatever fails, the migration and the report included: a clean
\* repository fails the process only through its preprocessing, its conflict agent or a package
\* listed twice, and one that is not passes only through its scan, a conflict agent that failed
\* twice, or a list without direct dependencies.
THEOREM ExitTellsHolds == LocalSpec => []ExitTells
<1>1. LocalInv /\ RaisedExits => ExitTells
  <2>0. CASE RaisedExits /\ "clone" \in failures
    BY <2>0 DEF RaisedExits, ExitTells
  <2> SUFFICES ASSUME LocalInv, at = "done", "clone" \notin failures PROVE ExitTells
    BY <2>0 DEF ExitTells
  <2>1. ReportKinds /\ decision \in Verdicts!ConflictOutcomes(Security) /\ exit = {ExitCode}
    BY DEF LocalInv, ReportInv, VerdictInv, PastReport
  <2>2. \/ decision = Verdicts!ConflictRun(Security)
        \/ "conflict" \in failures /\ decision \in Verdicts!ConflictDegradedRun(Security)
        \/ "conflict_twice" \in failures /\ decision = Verdicts!NoConflictDecision
    BY <2>1 DEF Verdicts!ConflictOutcomes, Verdicts!Execute
  <2>3. exit = {1} => decision.blocking
    BY <2>1 DEF ExitCode
  <2>4. exit = {0} => ~decision.blocking
    BY <2>1 DEF ExitCode
  <2>5. ASSUME exit = {1}, Truth = "clean", Listing # "repeated" PROVE "conflict" \in failures
    <3>1. ~Verdicts!ConflictRun(Security).blocking
      BY <2>1, <2>5, KindsTell DEF Verdicts!ConflictRun
    <3>2. ~Verdicts!NoConflictDecision.blocking
      BY DEF Verdicts!NoConflictDecision
    <3> QED BY <2>2, <2>3, <2>5, <3>1, <3>2
  <2>6. ASSUME exit = {0}, Truth # "clean", Listing # "lock_only"
        PROVE  failures \intersect {"scanner", "security", "conflict_twice"} # {}
    <3>1. CASE decision = Verdicts!ConflictRun(Security)
      <4>1. Security.sees \in {"clean", "nothing"}
        <5>1. Security.sees \notin {"block", "human"}
          BY <2>4, <2>6, <3>1 DEF Verdicts!ConflictRun
        <5>2. Security.sees \in {"clean", "block", "human", "nothing"}
          BY SeesPart DEF Security
        <5> QED BY <5>1, <5>2
      <4> QED BY <2>1, <2>6, <4>1, KindsTell
    <3>2. CASE decision \in Verdicts!ConflictDegradedRun(Security)
      <4>1. Security.sees \in {"clean", "nothing"}
        <5> SUFFICES ASSUME Security.sees \notin {"clean", "nothing"} PROVE FALSE
          OBVIOUS
        <5>1. Verdicts!ConflictDegradedRun(Security) =
                {[made |-> TRUE, blocking |-> b, blocks |-> b, paused |-> FALSE] : b \in {TRUE}}
          BY DEF Verdicts!ConflictDegradedRun
        <5>2. decision.blocking
          BY <3>2, <5>1
        <5> QED BY <2>4, <2>6, <5>2
      <4> QED BY <2>1, <2>6, <4>1, KindsTell
    <3> QED BY <2>2, <3>1, <3>2
  <2> QED BY <2>5, <2>6 DEF ExitTells
<1> QED BY <1>1, LocalCorrect, RaisedExitsHolds, PTL
=============================================================================
