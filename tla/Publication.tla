---------------------------- MODULE Publication ----------------------------
(***************************************************************************)
(* What the website's generator accepts and publishes: the documentation   *)
(* manifest, the supplemental rules, the asset map and the example catalog *)
(* (content-lib.mjs, publication-policy.mjs, examples.mjs), the resolution *)
(* of every link, and the check of the output (check-output.mjs).          *)
(*                                                                         *)
(* A contributor edits one entry at a time; every state is a configuration *)
(* the generator may be given.  One file stands for each class of sources  *)
(* that a rule tells apart.  Wording, metadata, search settings and the    *)
(* dependency edges of an example are left out.                            *)
(***************************************************************************)
EXTENDS Naturals, FiniteSets, Sequences, SequencesExt

CONSTANT MaxEdits    \* bound: entries that differ from the first configuration

Docs == {"guide", "old", "prompt"}     \* Markdown under docs-src/
Examples == {"prompt", "sample", "build"}
Files == Docs \cup Examples \cup {"image", "readme", "license", "code"}

\* Directory rules and the files below them.
Below == [examples |-> Examples, drafts |-> {"build"}, assets |-> {"image"}]
Nested == {<<"drafts", "examples">>}

NoEntry == "none"
Routes == {"/docs/", "/docs/old/"}
Media == "/media/image"
Paths == {"main", "build", "build.txt", "license"}
FileDispositions == {"repository-only", "hero-source", "media", "example-download"}
PageDispositions == {"publish", "bridge", "deferred"}
Unpublished == [disposition |-> "deferred", route |-> NoEntry]
NoPage == [disposition |-> NoEntry, route |-> NoEntry]

VARIABLES
  tracked,       \* git ls-files
  manifest,      \* docs-manifest.json: a document's disposition and route
  rules,         \* supplemental-sources.json: files
  directories,   \* and directories
  assets,        \* assets.json
  example,       \* the files of one catalog entry
  links,         \* the links and images of a document
  reader,        \* related pages, tutorials, their path, and the capabilities' pages
  public,        \* files somebody put under public/
  edits          \* bound

vars == <<tracked, manifest, rules, directories, assets, example, links, reader, public, edits>>

(* The documentation manifest *)

Rendered(d) == manifest[d].disposition \in {"publish", "bridge"}
RenderedDocs == {d \in Docs : Rendered(d)}

ValidateManifest ==
  /\ \A d \in Docs : d \in tracked <=> manifest[d] # NoPage
  /\ \A d \in Docs :
       manifest[d] # NoPage => (Rendered(d) <=> manifest[d].route # NoEntry)
  /\ \A d, e \in RenderedDocs : manifest[d].route = manifest[e].route => d = e

(* The supplemental rules *)

\* Mutant: a directory may be approved for copying.
AnyDisposition == FileDispositions

DirectoryDispositions == {"repository-only"}

\* The disposition of a source: its own rule, else its directory's.  A document
\* is the manifest's, unless it may be downloaded.
Disposition(f) ==
  LET over == {d \in DOMAIN Below : directories[d] # NoEntry /\ f \in Below[d]}
  IN IF f \notin tracked \/ (f \in Docs /\ rules[f] # "example-download") THEN NoEntry
     ELSE IF rules[f] # NoEntry THEN rules[f]
     ELSE IF over # {} THEN directories[CHOOSE d \in over : TRUE]
     ELSE NoEntry

MustBeDisposed == {"readme", "image"} \cup (Examples \ Docs)
Downloads == {x.source : x \in example}
Mapped == {f \in Files : assets[f] # NoEntry}

ValidRules ==
  /\ \A f \in Files : rules[f] # NoEntry =>
       f \in tracked /\ (f \in Docs => f \in Examples /\ rules[f] = "example-download")
  /\ \A d \in DOMAIN Below : directories[d] # NoEntry =>
       /\ directories[d] \in DirectoryDispositions
       /\ Below[d] \cap tracked # {}
       /\ ~\E other \in DOMAIN Below : directories[other] # NoEntry /\ <<d, other>> \in Nested

SupplementalInventory ==
  /\ ValidRules
  /\ \A f \in tracked \cap MustBeDisposed : Disposition(f) # NoEntry
  /\ Disposition("readme") = "hero-source"
  /\ \A f \in Files :
       LET disposition == Disposition(f) IN
       /\ disposition = "example-download" <=> f \in Downloads
       /\ disposition = "media" <=> f \in Mapped

(* The example catalog *)

\* downloadHref: a path without an extension gets one.
Href(path) == IF path = "build" THEN "build.txt" ELSE path

ValidateExampleSelection ==
  /\ Rendered("guide")
  /\ Downloads \subseteq tracked \cap (Examples \cup {"license"})
  /\ \A x, y \in example : x.path = y.path \/ x.source = y.source => x = y
  /\ Cardinality({x \in example : x.role = "entry"}) = 1
  /\ \E x \in example : x.source = "license" /\ x.role = "notice"

(* Links *)

ManifestDocs == {d \in Docs : manifest[d] # NoPage}

\* Mutant: every document of the manifest is linked by its route.
AllRouted == ManifestDocs

RoutedDocs == RenderedDocs

\* context.downloads leaves the notices out.
Offered == {x \in example : x.role # "notice"}

\* resolveLink of a link to a repository file, or of an image.
Resolvable(link) ==
  /\ link.target \in tracked
  /\ link.target \in ManifestDocs \/ Disposition(link.target) # NoEntry
  /\ link.image => link.target \in Mapped

Destination(link) ==
  LET f == link.target
  IN IF link.image THEN assets[f]
     ELSE IF f \in RoutedDocs THEN manifest[f].route
     ELSE IF f \in Mapped THEN assets[f]
     ELSE IF f \in {x.source : x \in Offered}
       THEN Href((CHOOSE x \in Offered : x.source = f).path)
     ELSE "repository"

TransformMarkdown(d) == \A link \in links[d] : Resolvable(link)

\* The heading of a bridge forwards to a link below it.
BridgeMappings(d) ==
  manifest[d].disposition = "bridge" => \E link \in links[d] : ~link.image

(* What leads the reader on *)

\* The pages a lesson leads to: those beside it in its path, after the last the index.
Lessons == Range(reader.path)
TutorialNeighbors(d) ==
  LET i == CHOOSE i \in DOMAIN reader.path : reader.path[i] = d
  IN {reader.path[j] : j \in {i - 1, i + 1} \cap DOMAIN reader.path} \cup
     (IF i = Len(reader.path) THEN {"guide"} ELSE {})

\* pageMetadata: a lesson's neighbors, else the first related page.
Neighbors(d) ==
  IF d \in reader.tutorials THEN TutorialNeighbors(d)
  ELSE {reader.related[d]} \ {NoEntry}

PageMetadata(d) == Neighbors(d) \subseteq RenderedDocs

\* resolveTutorialPaths and tutorialCurriculum: each tutorial is in the path once.
TutorialCurriculum ==
  /\ IsInjective(reader.path)
  /\ Lessons = reader.tutorials
  /\ reader.tutorials \subseteq RenderedDocs

\* The pages of a capability are not forwarded, what it defers is unpublished.
CapabilityCoverage ==
  /\ reader.capability \subseteq {d \in RenderedDocs : manifest[d].disposition # "bridge"}
  /\ reader.deferred \subseteq {d \in Docs : manifest[d].disposition = "deferred"}

(* What is written *)

\* Mutant: a download replaces the file at its address.
Overwriting == TRUE

\* Files are written with "wx", after the public files.
WrittenOnce ==
  /\ \A x, y \in example : Href(x.path) = Href(y.path) => x = y
  /\ \A x \in example : Href(x.path) \notin public

CopyAssets ==
  /\ \A f \in Mapped : f \in tracked /\ assets[f] \notin public
  /\ \A f, g \in Mapped : assets[f] = assets[g] => f = g

\* The generation ends without an error.
Accepted ==
  /\ ValidateManifest /\ ValidateExampleSelection
  /\ TutorialCurriculum /\ CapabilityCoverage
  /\ WrittenOnce /\ CopyAssets /\ SupplementalInventory
  /\ \A d \in RenderedDocs : TransformMarkdown(d) /\ PageMetadata(d) /\ BridgeMappings(d)

\* Whoever writes an address of the site.
Owners(address) ==
  {[page |-> d] : d \in {d \in RenderedDocs : manifest[d].route = address}} \cup
  {[download |-> x] : x \in {x \in example : Href(x.path) = address}} \cup
  {[asset |-> f] : f \in {f \in Mapped : assets[f] = address}} \cup
  {[authored |-> address] : a \in public \cap {address}}

\* check-output: every local link of a page has its file.
OutputChecked ==
  /\ \A d \in RenderedDocs :
       /\ \A link \in links[d] :
            Destination(link) # "repository" => Owners(Destination(link)) # {}
       /\ \A n \in Neighbors(d) : Owners(manifest[n].route) # {}
  /\ \A d \in reader.capability : Owners(manifest[d].route) # {}

(* The contributor *)

\* The guide is the one lesson; the prompt of the example may become a page.
Init ==
  /\ tracked = Files
  /\ manifest = [guide |-> [disposition |-> "publish", route |-> "/docs/"],
                 old |-> Unpublished, prompt |-> Unpublished]
  /\ rules = [f \in Files |->
       IF f \in {"sample", "license"} THEN "example-download"
       ELSE IF f = "readme" THEN "hero-source"
       ELSE IF f = "image" THEN "media" ELSE NoEntry]
  /\ directories = [d \in DOMAIN Below |->
       IF d = "examples" THEN "repository-only" ELSE NoEntry]
  /\ assets = [f \in Files |-> IF f = "image" THEN Media ELSE NoEntry]
  /\ example = {[source |-> "sample", path |-> "main", role |-> "entry"],
                [source |-> "license", path |-> "license", role |-> "notice"]}
  /\ links = [d \in Docs |-> {}]
  /\ reader = [related |-> [d \in Docs |-> NoEntry], tutorials |-> {"guide"}, path |-> <<"guide">>,
               capability |-> {"guide"}, deferred |-> {"old"}]
  /\ public = {}
  /\ edits = 0

SetPage(d) ==
  /\ \E entry \in [disposition : PageDispositions, route : Routes \cup {NoEntry}] \cup {NoPage} :
       manifest' = [manifest EXCEPT ![d] = entry]
  /\ UNCHANGED <<tracked, rules, directories, assets, example, links, reader, public>>

SetRule ==
  /\ \/ \E f \in Files \ {"guide"}, a \in FileDispositions \cup {NoEntry} :
          rules' = [rules EXCEPT ![f] = a] /\ UNCHANGED directories
     \/ \E d \in DOMAIN Below, a \in {"repository-only", "media", "example-download", NoEntry} :
          directories' = [directories EXCEPT ![d] = a] /\ UNCHANGED rules
  /\ UNCHANGED <<tracked, manifest, assets, example, links, reader, public>>

MapAsset ==
  /\ \E f \in {"image", "guide", "build", "code"}, a \in {Media, NoEntry} : assets' = [assets EXCEPT ![f] = a]
  /\ UNCHANGED <<tracked, manifest, rules, directories, example, links, reader, public>>

Offer ==
  /\ \E x \in [source : Examples \cup {"license", "code"}, path : {"main", "build", "build.txt"},
               role : {"entry", "data"}] \cup example :
       example' = IF x \in example THEN example \ {x} ELSE example \cup {x}
  /\ UNCHANGED <<tracked, manifest, rules, directories, assets, links, reader, public>>

Link ==
  /\ \E d \in {"guide", "old"}, link \in [target : Files, image : {FALSE}] \cup
          [target : {"image", "code"}, image : {TRUE}] :
       links' = [links EXCEPT ![d] = @ \cup {link}]
  /\ UNCHANGED <<tracked, manifest, rules, directories, assets, example, reader, public>>

\* A related page, a lesson, its place in the path, or a capability's page.
Lead ==
  /\ \E d \in Docs :
       reader' \in {[reader EXCEPT !.related[d] = e] : e \in Docs} \cup
                  {[reader EXCEPT !.tutorials = @ \cup {d}],
                   [reader EXCEPT !.path = Append(@, d)],
                   [reader EXCEPT !.capability = @ \cup {d}],
                   [reader EXCEPT !.deferred = @ \ {d}]}
  /\ UNCHANGED <<tracked, manifest, rules, directories, assets, example, links, public>>

Untrack ==
  /\ \E f \in tracked : tracked' = tracked \ {f}
  /\ UNCHANGED <<manifest, rules, directories, assets, example, links, reader, public>>

Author ==
  /\ \E a \in {Media} \cup {Href(p) : p \in Paths} : public' = public \cup {a}
  /\ UNCHANGED <<tracked, manifest, rules, directories, assets, example, links, reader>>

Next ==
  /\ edits < MaxEdits /\ edits' = edits + 1
  /\ (\E d \in Docs : SetPage(d)) \/ SetRule \/ MapAsset \/ Offer \/ Link \/ Lead \/ Untrack \/ Author

Spec == Init /\ [][Next]_vars

(* Properties *)

\* Whatever leaves the repository for the site has an approval of its own, of
\* the kind of its copy, and is tracked; otherwise nothing leaves
\* (publication-policy.mjs:34-35: directory rules authorize repository links
\* only, copies always require an exact-file rule plus the separate destination
\* allowlist).
CopiesAreApproved ==
  \/ /\ \A f \in Downloads : f \in tracked /\ rules[f] = "example-download"
     /\ \A f \in Mapped : f \in tracked /\ rules[f] = "media"
  \/ ~Accepted

\* What the generator accepts passes the check of the output: each link of a
\* page, each page it leads on to and each page of a capability is published, or
\* is a file of the repository (check-output.mjs:75-108).
LinksAreServed ==
  Accepted => OutputChecked

\* An address of the site is written once: pages, downloads under names that
\* gain an extension, mapped assets and authored files never replace each other;
\* a configuration that would do so is refused.
OneOwner ==
  Accepted => \A address \in Routes \cup {Media} \cup Paths : Cardinality(Owners(address)) <= 1
=============================================================================
