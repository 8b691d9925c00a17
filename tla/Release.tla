------------------------------ MODULE Release ------------------------------
(***************************************************************************)
(* `cargo xtask release`: the tool bumps the manifests, cuts the changelog, *)
(* commits, publishes the macros crate and then the crate itself, tags,     *)
(* pushes and creates a GitHub release.  Any step may fail or be declined;  *)
(* the developer then runs the tool again, possibly after committing or     *)
(* discarding what it left in the working tree.  No step is undone: what    *)
(* the next run skips depends on what it finds.                             *)
(*                                                                          *)
(* git, cargo, crates.io and GitHub are external, known by how the tool     *)
(* calls them.  `cargo publish` refuses a crate whose files have            *)
(* uncommitted changes and one whose requirements are not on crates.io;     *)
(* `git push` of a branch and a tag may be accepted for the tag only.       *)
(***************************************************************************)
EXTENDS Naturals

CONSTANTS Versions,    \* the versions of this instance: records major, minor, patch, pre
          NoPre,       \* an empty prerelease part
          None,
          MaxMishaps   \* bound: how many steps fail, are declined or thrown away

\* MAJOR.MINOR.PATCH-PRE_LABEL.PRE_NUMBER, the format is_next is made for
ASSUME VersionsAssumption ==
    Versions \subseteq [major : Nat, minor : Nat, patch : Nat,
                        pre : {NoPre} \cup ({"alpha", "beta"} \X Nat)]
ASSUME NoPreAssumption == NoPre \notin {"alpha", "beta"} \X Nat

VARIABLES kind,      \* "plain", "macros" (has a -macros crate) or "publish_only"
          old, want, \* the version before the release, and the one asked for
          pc,        \* the step the tool is at; "idle": it is not running
          tree,      \* the working tree: versions in the manifests, and the changelog
          head,      \* the same as last committed
          commits,   \* whether this run creates a commit (create_commit)
          changes,   \* what changes() returned in this run
          crates,    \* crates.io: the published crates, with their requirement on the macros
          tag,       \* the local tag: None or the commit it points to
          remote,    \* the remote: [tag |-> BOOLEAN, branch |-> the commit pushed]
          github,    \* the GitHub release: None or its body
          asked,     \* ghost: the developer confirmed an unusual version
          mishaps

vars == <<kind, old, want, pc, tree, head, commits, changes, crates, tag, remote,
          github, asked, mishaps>>
request == <<kind, old, want>>
outside == <<crates, tag, remote, github>>

(***************************************************************************)
(* Versions (trait VersionExt).                                             *)
(***************************************************************************)

Alpha(n) == <<"alpha", n>>
Beta(n) == <<"beta", n>>

\* add_pre_release
AddPre(v) == IF v.pre = NoPre THEN [v EXCEPT !.pre = Alpha(1)] ELSE v

\* increment_pre_number.  The number is an u8: at its end the tool, which
\* cargo builds with overflow checks, panics.
IncrementPreNumber(v) == [v EXCEPT !.pre = <<@[1], @[2] + 1>>]

IncrementPanics(v, w) == v # w /\ v.pre # NoPre /\ v.pre[2] = 255

\* increment_pre_label
IncrementPreLabel(v) == IF v.pre[1] = "alpha" THEN [v EXCEPT !.pre = Beta(1)] ELSE v

\* is_next: the versions it lets follow v without asking.  After the patch bump
\* the same candidate is bumped further: neither the patch number nor the
\* prerelease part goes back to its start.
NextVersions(v) ==
    IF v.pre # NoPre
    THEN LET n == IncrementPreNumber(v)
         IN {n, IncrementPreLabel(n), [v EXCEPT !.pre = NoPre]}
    ELSE LET patch == [v EXCEPT !.patch = @ + 1]
             pre == AddPre(patch)
             minor == [pre EXCEPT !.minor = @ + 1]
             major == [minor EXCEPT !.major = @ + 1]
         IN {patch, pre, minor, major}

IsNextLoose(v, w) == w.major = v.major /\ w.minor = v.minor

IsNext(v, w) == w \in NextVersions(v)

Prerelease == want.pre # NoPre

(***************************************************************************)
(* The changelog: the changes under the top title, and those of the         *)
(* sections the tool has cut for this version.  A cut always changes the    *)
(* file: it stays edited until it is committed.                             *)
(***************************************************************************)

NoChanges == "No changes for this version"

Changelog == [titled : BOOLEAN, top : {"changes", "none"},
              sections : SUBSET {"changes", NoChanges}, edited : BOOLEAN]

\* Package::changes: the text under the top title ...
ChangesText(log) == IF log.top = "none" THEN NoChanges ELSE log.top

\* ... which, in a release, goes under a title of its own below an empty
\* `# [unreleased]`.
CutChangelog(log) ==
    [titled |-> TRUE, top |-> "none", sections |-> log.sections \cup {ChangesText(log)},
     edited |-> TRUE]

(***************************************************************************)
(* Init: a clean checkout.                                                  *)
(***************************************************************************)

Checkout(v, log) == [pkg |-> v, mac |-> v, req |-> v, dep |-> v, log |-> log]

Init ==
    /\ kind \in {"plain", "macros", "publish_only"}
    /\ old \in Versions /\ want \in Versions
    /\ \E titled \in BOOLEAN, top \in {"changes", "none"} :
          tree = Checkout(old, [titled |-> titled, top |-> top, sections |-> {},
                                edited |-> FALSE])
    /\ head = tree
    /\ pc = "idle"
    /\ commits = FALSE
    /\ changes = NoChanges
    /\ crates = IF old = want THEN {} ELSE {<<"mac", old, old>>, <<"pkg", old, old>>}
    /\ tag = None
    /\ remote = [tag |-> FALSE, branch |-> head]
    /\ github = None
    /\ asked = FALSE
    /\ mishaps = 0

Dirty == tree # head

Published(c, v) == \E req \in Versions : <<c, v, req>> \in crates

Goto(next) == pc' = next

\* A command fails, a request is lost, the developer says no or presses ^C:
\* the tool stops and leaves everything as it is.
Stop ==
    /\ pc # "idle"
    /\ mishaps < MaxMishaps
    /\ mishaps' = mishaps + 1
    /\ Goto("idle")
    /\ UNCHANGED <<request, tree, head, commits, changes, outside, asked>>

\* git commit -a
CommitTree ==
    /\ tree' = [tree EXCEPT !.log.edited = FALSE]
    /\ head' = tree'

\* The developer, between two runs.
CommitByHand ==
    /\ pc = "idle" /\ Dirty
    /\ CommitTree
    /\ UNCHANGED <<request, pc, commits, changes, outside, asked, mishaps>>

DiscardByHand ==
    /\ pc = "idle" /\ Dirty
    /\ mishaps < MaxMishaps
    /\ mishaps' = mishaps + 1
    /\ tree' = head
    /\ UNCHANGED <<request, pc, head, commits, changes, outside, asked>>

(***************************************************************************)
(* ReleaseTask::run, one action per step that changes something.            *)
(***************************************************************************)

\* is_released, the questions, and the decision whether to bump and commit.
\* A question that is declined is a Stop.
StartPackageFirst ==
    /\ pc = "idle"
    /\ github = None
    /\ ~IncrementPanics(tree.pkg, want)
    /\ commits' = (tree.pkg # want)
    /\ asked' = (asked \/ (tree.pkg # want /\ ~IsNext(tree.pkg, want)))
    /\ Goto(IF tree.pkg = want THEN "changes"
            ELSE IF kind = "macros" THEN "bump_macros" ELSE "bump_package")
    /\ tree' = [tree EXCEPT !.pkg = want]
    /\ UNCHANGED <<request, head, changes, outside, mishaps>>

Start ==
    /\ pc = "idle"
    /\ github = None
    /\ ~IncrementPanics(tree.pkg, want)
    /\ commits' = (tree.pkg # want)
    /\ asked' = (asked \/ (tree.pkg # want /\ ~IsNext(tree.pkg, want)))
    /\ Goto(IF tree.pkg = want THEN "changes"
            ELSE IF kind = "macros" THEN "bump_macros" ELSE "bump_package")
    /\ UNCHANGED <<request, tree, head, changes, outside, mishaps>>

\* update_version of the macros crate
BumpMacros ==
    /\ pc = "bump_macros"
    /\ tree' = [tree EXCEPT !.mac = want]
    /\ Goto("require_macros")
    /\ UNCHANGED <<request, head, commits, changes, outside, asked, mishaps>>

\* update_dependants of the macros crate: its dependant is the crate itself
RequireMacros ==
    /\ pc = "require_macros"
    /\ tree' = [tree EXCEPT !.req = want]
    /\ Goto("bump_package")
    /\ UNCHANGED <<request, head, commits, changes, outside, asked, mishaps>>

BumpPackage ==
    /\ pc = "bump_package"
    /\ tree' = [tree EXCEPT !.pkg = want]
    /\ Goto("require_package")
    /\ UNCHANGED <<request, head, commits, changes, outside, asked, mishaps>>

\* update_dependants of the crate: the manifests of the other crates
RequirePackage ==
    /\ pc = "require_package"
    /\ tree' = [tree EXCEPT !.dep = want]
    /\ Goto("changes")
    /\ UNCHANGED <<request, head, commits, changes, outside, asked, mishaps>>

\* changes(!prerelease): rewrites the changelog whether or not this run commits
ChangesAlways ==
    /\ pc = "changes"
    /\ tree.log.titled
    /\ changes' = ChangesText(tree.log)
    /\ tree' = [tree EXCEPT !.log = CutChangelog(@)]
    /\ Goto(IF commits THEN "commit" ELSE IF kind = "macros" THEN "publish_macros" ELSE "publish")
    /\ UNCHANGED <<request, head, commits, outside, asked, mishaps>>

Changes ==
    /\ pc = "changes"
    /\ tree.log.titled
    /\ changes' = ChangesText(tree.log)
    /\ tree' = IF Prerelease THEN tree ELSE [tree EXCEPT !.log = CutChangelog(@)]
    /\ Goto(IF commits THEN "commit" ELSE IF kind = "macros" THEN "publish_macros" ELSE "publish")
    /\ UNCHANGED <<request, head, commits, outside, asked, mishaps>>

\* The changelog has no title the tool knows.
ChangesErr ==
    /\ pc = "changes"
    /\ ~tree.log.titled
    /\ Goto("idle")
    /\ UNCHANGED <<request, tree, head, commits, changes, outside, asked, mishaps>>

Commit ==
    /\ pc = "commit"
    /\ CommitTree
    /\ Goto(IF kind = "macros" THEN "publish_macros" ELSE "publish")
    /\ UNCHANGED <<request, commits, changes, outside, asked, mishaps>>

\* Package::publish for the macros crate; one already there is skipped.
PublishMacros ==
    /\ pc = "publish_macros"
    /\ \/ Published("mac", tree.mac) /\ UNCHANGED crates
       \/ /\ ~Published("mac", tree.mac)
          /\ tree.mac = head.mac
          /\ crates' = crates \cup {<<"mac", tree.mac, tree.mac>>}
    /\ Goto("publish")
    /\ UNCHANGED <<request, tree, head, commits, changes, tag, remote, github, asked, mishaps>>

\* Package::publish for the crate itself.  Its files are its manifest (version
\* and requirements) and its changelog.
Clean == tree.pkg = head.pkg /\ tree.req = head.req /\ tree.log = head.log

PublishPackage ==
    /\ pc = "publish"
    /\ \/ Published("pkg", tree.pkg) /\ UNCHANGED crates
       \/ /\ ~Published("pkg", tree.pkg)
          /\ Clean
          /\ kind = "macros" => Published("mac", tree.req)
          /\ crates' = crates \cup {<<"pkg", tree.pkg, tree.req>>}
    /\ Goto(IF kind = "publish_only" THEN "push_branch" ELSE "tag")
    /\ UNCHANGED <<request, tree, head, commits, changes, tag, remote, github, asked, mishaps>>

\* `cargo publish` refuses.
PublishErr ==
    /\ \/ /\ pc = "publish_macros"
          /\ ~Published("mac", tree.mac) /\ tree.mac # head.mac
       \/ /\ pc = "publish"
          /\ ~Published("pkg", tree.pkg)
          /\ ~Clean \/ (kind = "macros" /\ ~Published("mac", tree.req))
    /\ Goto("idle")
    /\ UNCHANGED <<request, tree, head, commits, changes, outside, asked, mishaps>>

PushBranch ==
    /\ pc = "push_branch"
    /\ remote' = [remote EXCEPT !.branch = head]
    /\ Goto("idle")
    /\ UNCHANGED <<request, tree, head, commits, changes, crates, tag, github, asked, mishaps>>

Tag ==
    /\ pc = "tag"
    /\ tag' = IF tag = None THEN head ELSE tag
    /\ Goto("push")
    /\ UNCHANGED <<request, tree, head, commits, changes, crates, remote, github, asked, mishaps>>

Push ==
    /\ pc = "push"
    /\ remote' = IF remote.tag THEN remote ELSE [tag |-> TRUE, branch |-> head]
    /\ Goto(IF Prerelease THEN "idle" ELSE "github")
    /\ UNCHANGED <<request, tree, head, commits, changes, crates, tag, github, asked, mishaps>>

\* The remote takes the tag and refuses the branch: `git push` fails.
PushHalf ==
    /\ pc = "push"
    /\ mishaps < MaxMishaps
    /\ mishaps' = mishaps + 1
    /\ remote' = [remote EXCEPT !.tag = TRUE]
    /\ Goto("idle")
    /\ UNCHANGED <<request, tree, head, commits, changes, crates, tag, github, asked>>

CreateRelease ==
    /\ pc = "github"
    /\ github' = changes
    /\ Goto("idle")
    /\ UNCHANGED <<request, tree, head, commits, changes, crates, tag, remote, asked, mishaps>>

Step ==
    \/ Start \/ BumpMacros \/ RequireMacros \/ BumpPackage \/ RequirePackage
    \/ Changes \/ ChangesErr \/ Commit \/ PublishMacros \/ PublishPackage \/ PublishErr
    \/ PushBranch \/ Tag \/ Push \/ CreateRelease

Next == Step \/ Stop \/ PushHalf \/ CommitByHand \/ DiscardByHand

\* The developer runs the tool again until it succeeds, and commits by hand
\* what an interrupted run has left in the working tree.
Spec == Init /\ [][Next]_vars /\ WF_vars(Step) /\ SF_vars(CommitByHand)

(***************************************************************************)
(* Properties.                                                              *)
(***************************************************************************)

Snapshot == [pkg : Versions, mac : Versions, req : Versions, dep : Versions, log : Changelog]

ASSUME NoneAssumption == None \notin Snapshot /\ None \notin {"changes", NoChanges}

Steps == {"idle", "bump_macros", "require_macros", "bump_package", "require_package", "changes",
          "commit", "publish_macros", "publish", "push_branch", "tag", "push", "github"}

\* Every variable holds what the tool or the outside can put there.
TypeOK ==
    /\ pc \in Steps
    /\ tree \in Snapshot /\ head \in Snapshot
    /\ commits \in BOOLEAN /\ asked \in BOOLEAN
    /\ changes \in {"changes", NoChanges}
    /\ crates \subseteq {"pkg", "mac"} \X Versions \X Versions
    /\ tag \in Snapshot \cup {None}
    /\ remote \in [tag : BOOLEAN, branch : Snapshot]
    /\ github \in {None, "changes", NoChanges}

\* A crate released with its macros never reaches crates.io requiring other
\* macros than the ones released with it, however the runs were interrupted:
\* the macros and the requirement are bumped before the crate's own version,
\* which is what the next run looks at.
PublishedRequiresItsMacros ==
    kind = "macros" =>
        \A req \in Versions : <<"pkg", want, req>> \in crates =>
            req = want /\ Published("mac", want)

\* What is tagged, locally or on the remote, is published, and the tagged
\* commit holds the version the tag names.
TagIsPublished ==
    /\ remote.tag => tag # None
    /\ tag # None => Published("pkg", want) /\ tag.pkg = want

\* A GitHub release has its tag on the remote, and is made of no prerelease.
ReleaseHasTag == github # None => remote.tag /\ ~Prerelease

\* What the world sees is consistent after every step of every run: the
\* published crate fits its macros, the tag names what is published, and a
\* GitHub release has its tag.
PublicStateIsConsistent == PublishedRequiresItsMacros /\ TagIsPublished /\ ReleaseHasTag

\* Lower precedence first, as in semantic versioning.
Precedence(v) ==
    <<v.major, v.minor, v.patch,
      IF v.pre = NoPre THEN 2 ELSE IF v.pre[1] = "beta" THEN 1 ELSE 0,
      IF v.pre = NoPre THEN 0 ELSE v.pre[2]>>
Before(v, w) ==
    \E i \in 1..5 : /\ Precedence(v)[i] < Precedence(w)[i]
                    /\ \A j \in 1..(i - 1) : Precedence(v)[j] = Precedence(w)[j]

\* A version that does not come after the old one is published only when the
\* developer has confirmed it (or had set it before).
NeverBackwardsUnasked ==
    Published("pkg", want) => old = want \/ asked \/ Before(old, want)

\* A prerelease is finished in the end: whatever was interrupted, running the
\* tool again publishes it and pushes its tag.
PrereleaseCompletes ==
    Prerelease /\ tree.log.titled /\ kind # "publish_only" /\ ~IncrementPanics(old, want)
        ~> remote.tag /\ Published("pkg", want)

====
