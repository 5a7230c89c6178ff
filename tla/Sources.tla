------------------------------ MODULE Sources ------------------------------
(***************************************************************************)
(* Resolving a variable's source (resolve of src/update.go): the spec is   *)
(* parsed, src/source.go, and the source asked for its latest version: one *)
(* request to GitHub, src/source_github.go, or the requests, the challenge *)
(* and the token of a Docker registry, src/source_docker.go.  Between two  *)
(* requests, releases and image tags move.                                 *)
(***************************************************************************)
EXTENDS VersionOrder, SequencesExt

CONSTANTS
    Specs,     \* the specs: records of scheme, wellFormed, prefix, prereleases
    AnyPrefix, \* no prefix option
    Releases,  \* what a project may publish: records of tag, draft, prerelease
    MaxListed, \* a repository has at most so many releases (a bound)
    PageSize,  \* per_page
    Digests,   \* what the tag of an image may point at
    None,      \* no digest, no tag
    Error      \* the resolution has failed

ASSUME SourcesAssumption ==
    /\ \A s \in Specs : s.scheme \in {"github", "docker", "other"}
    /\ \A r \in Releases : r.tag \in Tags
    /\ PageSize \in Nat
    /\ Error \notin Tags \cup Digests \cup {None} /\ None \notin Tags \cup Digests

VARIABLES
    listing,  \* GitHub: the releases of the repository, newest first
    image,    \* the registry: the digest that the image tag points at, or None
    spec,     \* the spec that is resolved
    pc,       \* where the resolution is
    page,     \* GitHub: the releases that were answered,
    pos,      \* the position of the one that the loop of Latest looks at,
    best,     \* and the tag that it prefers so far; None for ""
    answer,   \* the last answer to a manifest request: [status, digest]
    result    \* what resolve returned: a tag, a digest or Error; None before

worldVars == <<listing, image>>
scanVars  == <<page, pos, best>>
vars      == <<worldVars, scanVars, spec, pc, answer, result>>

NoAnswer == [status |-> "none", digest |-> None]

Init ==
    /\ listing = <<>>
    /\ image = None
    /\ spec \in Specs
    /\ pc = "idle"
    /\ page = <<>> /\ pos = 0 /\ best = None
    /\ answer = NoAnswer
    /\ result = None

\* The resolution goes on; it has returned r.
Goto(label) == pc' = label /\ UNCHANGED result
Finish(r) == pc' = "done" /\ result' = r

\* parseSource, and what the factory of the scheme makes of the locator.
Begin ==
    /\ pc = "idle"
    /\ IF spec.scheme = "other" \/ ~spec.wellFormed THEN Finish(Error)
       ELSE IF spec.scheme = "docker" THEN Goto("manifest")
       ELSE IF spec.prefix = AnyPrefix /\ ~spec.prereleases THEN Goto("newest")
       ELSE Goto("list")
    /\ UNCHANGED <<worldVars, scanVars, spec, answer>>

----------------------------------------------------------------------------
(* GitHub                                                                  *)

\* releases/latest: GitHub chooses among the published releases; 404 if there
\* are none.
AskNewest ==
    /\ pc = "newest"
    /\ LET published == {r \in Range(listing) : ~r.draft /\ ~r.prerelease}
       IN  IF published = {} THEN Finish(Error)
           ELSE \E r \in published : Finish(r.tag)
    /\ UNCHANGED <<worldVars, scanVars, spec, answer>>

\* A flawed variant: drafts qualify.
QualifiesDrafts(r) ==
    /\ ~r.prerelease \/ spec.prereleases
    /\ spec.prefix = AnyPrefix \/ spec.prefix \in r.tag.prefixes

Qualifies(r) ==
    /\ ~r.draft
    /\ ~r.prerelease \/ spec.prereleases
    /\ spec.prefix = AnyPrefix \/ spec.prefix \in r.tag.prefixes

\* A flawed variant: the lowest tag is kept.
BetterReversed(t) == best = None \/ CompareVersions(t, best) < 0

Better(t) == best = None \/ CompareVersions(t, best) > 0

Page == SubSeq(listing, 1, IF Len(listing) < PageSize THEN Len(listing) ELSE PageSize)

\* releases?per_page=...: the first page only.
AskList ==
    /\ pc = "list"
    /\ page' = Page /\ pos' = 1 /\ best' = None
    /\ Goto("scan")
    /\ UNCHANGED <<worldVars, spec, answer>>

\* The loop over the releases of the page.
Scan ==
    /\ pc = "scan" /\ pos <= Len(page)
    /\ best' = IF Qualifies(page[pos]) /\ Better(page[pos].tag) THEN page[pos].tag ELSE best
    /\ pos' = pos + 1
    /\ UNCHANGED <<worldVars, spec, pc, page, answer, result>>

\* The loop's variables are local to Latest.
ScanEnds ==
    /\ pc = "scan" /\ pos > Len(page)
    /\ Finish(IF best = None THEN Error ELSE best)
    /\ page' = <<>> /\ pos' = 0 /\ best' = None
    /\ UNCHANGED <<worldVars, spec, answer>>

\* No answer, a status other than 200 or a body that cannot be parsed.
GitHubFails ==
    /\ pc \in {"newest", "list"}
    /\ Finish(Error)
    /\ UNCHANGED <<worldVars, scanVars, spec, answer>>

----------------------------------------------------------------------------
(* Docker                                                                  *)

\* What a registry may answer: it asks for a token, has the manifest or not,
\* with its digest or without, or is in trouble.
Answers ==
    {[status |-> s, digest |-> None] : s \in {"401", "error"}}
        \cup {IF image = None THEN [status |-> "404", digest |-> None]
              ELSE [status |-> "200", digest |-> image],
              [status |-> IF image = None THEN "404" ELSE "200", digest |-> None]}

\* A flawed variant: a digest that is missing is returned, too.
OutcomeUnchecked(a) == IF a.status = "200" THEN a.digest ELSE Error

\* What resolveDigest makes of the answer that is not followed by a retry.
Outcome(a) == IF a.status = "200" /\ a.digest # None THEN a.digest ELSE Error

\* The manifest request without a token; a 401 makes it ask for one.
AskManifest ==
    /\ pc = "manifest"
    /\ \E a \in Answers :
         /\ answer' = a
         /\ IF a.status = "401" THEN Goto("token") ELSE Finish(Outcome(a))
    /\ UNCHANGED <<worldVars, scanVars, spec>>

\* fetchToken: the challenge has a token endpoint, which grants a token.
FetchToken ==
    /\ pc = "token"
    /\ Goto("retry")
    /\ UNCHANGED <<worldVars, scanVars, spec, answer>>

\* The challenge has no realm, or there is no token in what it leads to.
NoToken ==
    /\ pc = "token"
    /\ Finish(Error)
    /\ UNCHANGED <<worldVars, scanVars, spec, answer>>

\* A flawed variant: every 401 is followed by another token.
RetryUntilServed ==
    /\ pc = "retry"
    /\ \E a \in Answers :
         /\ answer' = a
         /\ IF a.status = "401" THEN Goto("token") ELSE Finish(Outcome(a))
    /\ UNCHANGED <<worldVars, scanVars, spec>>

\* A flawed variant: the second response shadows the first one in its block.
RetryShadowed ==
    /\ pc = "retry"
    /\ \E a \in Answers : answer' = a
    /\ Finish(Outcome(answer))
    /\ UNCHANGED <<worldVars, scanVars, spec>>

\* The manifest request with the token; its answer is final.
Retry ==
    /\ pc = "retry"
    /\ \E a \in Answers :
         /\ answer' = a
         /\ Finish(Outcome(a))
    /\ UNCHANGED <<worldVars, scanVars, spec>>

\* A request of the resolution gets no answer.
DockerFails ==
    /\ pc \in {"manifest", "retry"}
    /\ answer' = NoAnswer
    /\ Finish(Error)
    /\ UNCHANGED <<worldVars, scanVars, spec>>

----------------------------------------------------------------------------
(* The environment (external).  It stands still while the loop of Latest   *)
(* runs, which looks at nothing but its page.                              *)

\* A later check resolves the same spec again.
Again ==
    /\ pc = "done"
    /\ pc' = "idle"
    /\ answer' = NoAnswer
    /\ result' = None
    /\ UNCHANGED <<worldVars, scanVars, spec>>

\* A release appears in the listing: at its top, or further down when it was
\* drafted or tagged before others.
Publish ==
    /\ pc # "scan"
    /\ Len(listing) < MaxListed
    /\ \E r \in Releases, i \in 1 .. Len(listing) + 1 :
         /\ \A x \in Range(listing) : x.tag # r.tag
         /\ listing' = InsertAt(listing, i, r)
    /\ UNCHANGED <<image, scanVars, spec, pc, answer, result>>

Withdraw ==
    /\ pc # "scan"
    /\ \E i \in DOMAIN listing : listing' = RemoveAt(listing, i)
    /\ UNCHANGED <<image, scanVars, spec, pc, answer, result>>

MoveTag ==
    /\ pc # "scan"
    /\ image' \in (Digests \cup {None}) \ {image}
    /\ UNCHANGED <<listing, scanVars, spec, pc, answer, result>>

GitHub == AskNewest \/ AskList \/ Scan \/ ScanEnds \/ GitHubFails
Docker == AskManifest \/ FetchToken \/ NoToken \/ Retry \/ DockerFails
Resolution == Begin \/ GitHub \/ Docker

Next == Resolution \/ Again \/ Publish \/ Withdraw \/ MoveTag

Spec == Init /\ [][Next]_vars

\* Requests end in a response or in the client's timeout of 30 s.
FairSpec == Spec /\ WF_vars(Resolution)

----------------------------------------------------------------------------
(* Properties                                                              *)

\* The types of the variables; there is a result exactly when the resolution is
\* done, and the loop of Latest stays on its page.
TypeOK ==
    /\ listing \in Seq(Releases)
    /\ image \in Digests \cup {None}
    /\ spec \in Specs
    /\ pc \in {"idle", "newest", "list", "scan", "manifest", "token", "retry", "done"}
    /\ page \in Seq(Releases)
    /\ IF pc = "scan" THEN pos \in 1 .. Len(page) + 1 ELSE pos = 0
    /\ best \in Tags \cup {None}
    /\ answer \in [status : {"none", "200", "401", "404", "error"}, digest : Digests \cup {None}]
    /\ result \in Tags \cup Digests \cup {Error, None}
    /\ result # None <=> pc = "done"

\* The tag that the loop prefers is the one that compares as higher than every
\* other one that it has seen and that qualifies.  There is no more than one
\* such tag, so what a listing yields does not depend on its order: among tags
\* with and without a "v", of different lengths and with numbers beyond int,
\* compareVersions goes round in no circle (source_github.go:80-91, 138-158).
HighestSoFar ==
    pc = "scan" =>
        LET seen == {page[i].tag : i \in {x \in 1 .. pos - 1 : Qualifies(page[x])}}
        IN  IF seen = {} THEN best = None
            ELSE best \in seen /\ \A t \in seen \ {best} : CompareVersions(best, t) > 0

\* The tag that a list of releases yields belongs to a release on the page that
\* qualifies, and no other one that does is of a newer version, in whatever
\* order they are listed (source_github.go:75-97, 138-158); an error means
\* that nothing qualifies.
NewestOnPage ==
    [][ScanEnds =>
         LET fit == {r.tag : r \in {x \in Range(page) : ~x.draft
                        /\ (x.prerelease => spec.prereleases)
                        /\ spec.prefix \in x.tag.prefixes \cup {AnyPrefix}}}
         IN  IF fit = {} THEN result' = Error
             ELSE result' \in fit /\ \A t \in fit : ~NewerCore(t, result')]_vars

\* A Docker resolution returns a digest exactly when the last of its manifest
\* requests was answered with one, and then that digest: the answer before a
\* retry counts for nothing (source_docker.go:91-126).
ResultIsLastAnswer ==
    pc = "done" /\ spec.scheme = "docker" /\ spec.wellFormed =>
        IF answer.digest # None THEN result = answer.digest ELSE result = Error

\* Every resolution comes to an end, whatever registry and sources answer:
\* a challenge is met at most once (source_docker.go:96-108).
ResolutionEnds == pc = "idle" ~> pc = "done"

(***************************************************************************)
(* What documents and comments say and the code does not do.               *)
(***************************************************************************)

\* README.md:66, source_github.go:58: the newest qualifying release.  A final
\* release is newer than the pre-releases of the same version.
FinalBeatsItsPreReleases ==
    [][ScanEnds /\ result' # Error =>
         ~\E i \in DOMAIN page : /\ Qualifies(page[i])
                                 /\ page[i].tag.final /\ ~result'.final
                                 /\ page[i].tag.core = result'.core]_vars
=============================================================================
