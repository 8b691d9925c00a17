--------------------------- MODULE ReleaseProofs ---------------------------
(***************************************************************************)
(* Proofs about Release: what is public is consistent however often the     *)
(* tool is stopped and run again, for any versions and any number of        *)
(* mishaps.                                                                 *)
(***************************************************************************)
EXTENDS Release, TLAPS

\* The manifest of the crate goes from the old version to the new one, in the
\* working tree first, and never back.
VersionsMoveOn ==
    /\ tree.pkg \in {old, want}
    /\ head.pkg \in {old, want}
    /\ head.pkg = want => tree.pkg = want
    /\ pc \in {"require_package", "changes", "commit", "publish_macros", "publish",
               "push_branch", "tag", "push", "github"} => tree.pkg = want

\* The requirement on the macros is bumped before the crate's own version, and
\* committed no later.
RequirementFirst ==
    kind = "macros" =>
        /\ pc = "bump_package" => tree.req = want
        /\ tree.pkg = want => tree.req = want
        /\ head.pkg = want => head.req = want

\* The crate is published from a commit that holds its version, and everything
\* after the publish step finds it published.
PublishedIsCommitted ==
    /\ Published("pkg", want) => head.pkg = want
    /\ pc \in {"push_branch", "tag", "push", "github"} => Published("pkg", want)

\* The tag is made before it is pushed, and pushed before the GitHub release.
TagFirst ==
    /\ pc = "push" => tag # None
    /\ pc = "github" => remote.tag /\ ~Prerelease

\* Whoever has begun to release has asked, or had nothing to ask.
Decided == old = want \/ asked \/ IsNext(old, want)
DecidedFirst == pc # "idle" \/ tree.pkg = want => Decided

\* The inductive invariant.
ReleaseInv ==
    /\ TypeOK
    /\ kind \in {"plain", "macros", "publish_only"} /\ old \in Versions /\ want \in Versions
    /\ VersionsMoveOn
    /\ RequirementFirst
    /\ PublishedIsCommitted
    /\ TagFirst
    /\ DecidedFirst
    /\ PublicStateIsConsistent

(***************************************************************************)
(* Versions.                                                                *)
(***************************************************************************)

\* What is_next lets pass comes after the old version.
LEMMA NextIsLater ==
    ASSUME NEW v \in Versions, NEW w \in Versions, IsNext(v, w)
    PROVE  Before(v, w)
  <1>1. /\ v \in [major : Nat, minor : Nat, patch : Nat,
                  pre : {NoPre} \cup ({"alpha", "beta"} \X Nat)]
        /\ NoPre \notin {"alpha", "beta"} \X Nat
    BY VersionsAssumption, NoPreAssumption
  <1>2. CASE v.pre # NoPre
    <2>1. /\ v.pre \in {"alpha", "beta"} \X Nat
          /\ v.pre[2] \in Nat
          /\ v.pre[1] \in {"alpha", "beta"}
      BY <1>1, <1>2
    <2> DEFINE n == IncrementPreNumber(v)
    <2>2. /\ n.major = v.major /\ n.minor = v.minor /\ n.patch = v.patch
          /\ n.pre = <<v.pre[1], v.pre[2] + 1>>
      BY <1>1, <2>1 DEF IncrementPreNumber
    <2>3. n.pre # NoPre
      BY <1>1, <2>1, <2>2
    <2>4. CASE w = n
      <3>1. /\ Precedence(v)[5] < Precedence(w)[5]
            /\ \A j \in 1..4 : Precedence(v)[j] = Precedence(w)[j]
        BY <1>1, <1>2, <2>1, <2>2, <2>3, <2>4 DEF Precedence
      <3>2. QED
        BY <3>1 DEF Before
    <2>5. CASE v.pre[1] = "alpha" /\ w = [n EXCEPT !.pre = Beta(1)]
      <3>1. /\ w.major = v.major /\ w.minor = v.minor /\ w.patch = v.patch
            /\ w.pre = <<"beta", 1>>
        BY <1>1, <2>2, <2>5 DEF Beta, IncrementPreNumber
      <3>2. w.pre # NoPre
        BY <1>1, <3>1
      <3>3. /\ Precedence(v)[4] < Precedence(w)[4]
            /\ \A j \in 1..3 : Precedence(v)[j] = Precedence(w)[j]
        BY <1>1, <1>2, <2>5, <3>1, <3>2 DEF Precedence
      <3>4. QED
        BY <3>3 DEF Before
    <2>6. CASE w = [v EXCEPT !.pre = NoPre]
      <3>1. /\ w.major = v.major /\ w.minor = v.minor /\ w.patch = v.patch
            /\ w.pre = NoPre
        BY <1>1, <2>6
      <3>2. /\ Precedence(v)[4] < Precedence(w)[4]
            /\ \A j \in 1..3 : Precedence(v)[j] = Precedence(w)[j]
        BY <1>1, <1>2, <2>1, <3>1 DEF Precedence
      <3>3. QED
        BY <3>2 DEF Before
    <2>7. QED
      BY <1>2, <2>2, <2>4, <2>5, <2>6 DEF IsNext, NextVersions, IncrementPreLabel
  <1>3. CASE v.pre = NoPre
    <2>1. \/ w.major = v.major /\ w.minor = v.minor /\ w.patch = v.patch + 1
          \/ w.major = v.major /\ w.minor = v.minor + 1
          \/ w.major = v.major + 1
      BY <1>1, <1>3 DEF IsNext, NextVersions, AddPre
    <2>2. CASE w.major = v.major /\ w.minor = v.minor /\ w.patch = v.patch + 1
      <3>1. /\ Precedence(v)[3] < Precedence(w)[3]
            /\ \A j \in 1..2 : Precedence(v)[j] = Precedence(w)[j]
        BY <1>1, <2>2 DEF Precedence
      <3>2. QED
        BY <3>1 DEF Before
    <2>3. CASE w.major = v.major /\ w.minor = v.minor + 1
      <3>1. /\ Precedence(v)[2] < Precedence(w)[2]
            /\ Precedence(v)[1] = Precedence(w)[1]
        BY <1>1, <2>3 DEF Precedence
      <3>2. QED
        BY <3>1 DEF Before
    <2>4. CASE w.major = v.major + 1
      <3>1. Precedence(v)[1] < Precedence(w)[1]
        BY <1>1, <2>4 DEF Precedence
      <3>2. QED
        BY <3>1 DEF Before
    <2>5. QED
      BY <2>1, <2>2, <2>3, <2>4
  <1>4. QED
    BY <1>2, <1>3

(***************************************************************************)
(* Types.                                                                   *)
(***************************************************************************)

\* The types hold in a clean checkout.
LEMMA TypeInit == Init => TypeOK
  <1> SUFFICES ASSUME Init PROVE TypeOK
    OBVIOUS
  <1>1. PICK titled \in BOOLEAN, top \in {"changes", "none"} :
          tree = Checkout(old, [titled |-> titled, top |-> top, sections |-> {}, edited |-> FALSE])
    BY DEF Init
  <1>2. [titled |-> titled, top |-> top, sections |-> {}, edited |-> FALSE] \in Changelog
    BY DEF Changelog
  <1>3. tree \in Snapshot
    BY <1>1, <1>2 DEF Init, Checkout, Snapshot
  <1>4. crates \subseteq {"pkg", "mac"} \X Versions \X Versions
    BY DEF Init
  <1>5. QED
    BY <1>3, <1>4 DEF Init, TypeOK, Steps

\* A commit holds the manifests of the working tree.
LEMMA CommitTyped ==
    ASSUME TypeOK, CommitTree
    PROVE  /\ tree' \in Snapshot /\ head' = tree'
           /\ tree'.pkg = tree.pkg /\ tree'.req = tree.req
  <1>1. tree \in Snapshot /\ tree.log \in Changelog
    BY DEF TypeOK, Snapshot
  <1>2. [tree.log EXCEPT !.edited = FALSE] \in Changelog
    BY <1>1 DEF Changelog
  <1>3. tree' = [tree EXCEPT !.log = [tree.log EXCEPT !.edited = FALSE]] /\ head' = tree'
    BY DEF CommitTree
  <1>4. QED
    BY <1>1, <1>2, <1>3 DEF Snapshot

\* Every step of the tool, the developer or the outside keeps them.
LEMMA TypeStep ==
    ASSUME TypeOK, want \in Versions, [Next]_vars
    PROVE  TypeOK'
  <1>1. CASE Start
    BY <1>1 DEF Start, TypeOK, Steps, Snapshot, Changelog, Goto, request, outside
  <1>2. CASE BumpMacros
    BY <1>2 DEF BumpMacros, TypeOK, Steps, Snapshot, Changelog, Goto, request, outside
  <1>3. CASE RequireMacros
    BY <1>3 DEF RequireMacros, TypeOK, Steps, Snapshot, Changelog, Goto, request, outside
  <1>4. CASE BumpPackage
    BY <1>4 DEF BumpPackage, TypeOK, Steps, Snapshot, Changelog, Goto, request, outside
  <1>5. CASE RequirePackage
    BY <1>5 DEF RequirePackage, TypeOK, Steps, Snapshot, Changelog, Goto, request, outside
  <1>6. CASE Changes
    <2>1. /\ tree.log \in Changelog
          /\ ChangesText(tree.log) \in {"changes", NoChanges}
      BY DEF TypeOK, Snapshot, Changelog, ChangesText
    <2>2. CutChangelog(tree.log) \in Changelog
      BY <2>1 DEF Changelog, CutChangelog
    <2>3. tree' \in Snapshot
      BY <1>6, <2>2 DEF Changes, TypeOK, Snapshot
    <2>4. QED
      BY <1>6, <2>1, <2>3 DEF Changes, TypeOK, Steps, Goto, request, outside
  <1>7. CASE ChangesErr
    BY <1>7 DEF ChangesErr, TypeOK, Steps, Snapshot, Changelog, Goto, request, outside
  <1>8. CASE Commit
    BY <1>8, CommitTyped DEF Commit, TypeOK, Steps, Goto, request, outside
  <1>9. CASE PublishMacros
    BY <1>9 DEF PublishMacros, TypeOK, Steps, Snapshot, Changelog, Goto, request, outside
  <1>10. CASE PublishPackage
    BY <1>10 DEF PublishPackage, TypeOK, Steps, Snapshot, Changelog, Goto, request, outside
  <1>11. CASE PublishErr
    BY <1>11 DEF PublishErr, TypeOK, Steps, Snapshot, Changelog, Goto, request, outside
  <1>12. CASE PushBranch
    BY <1>12 DEF PushBranch, TypeOK, Steps, Snapshot, Changelog, Goto, request, outside
  <1>13. CASE Tag
    BY <1>13 DEF Tag, TypeOK, Steps, Snapshot, Changelog, Goto, request, outside
  <1>14. CASE Push
    BY <1>14 DEF Push, TypeOK, Steps, Snapshot, Changelog, Goto, request, outside
  <1>15. CASE CreateRelease
    BY <1>15 DEF CreateRelease, TypeOK, Steps, Snapshot, Changelog, Goto, request, outside
  <1>16. CASE Stop
    BY <1>16 DEF Stop, TypeOK, Steps, Snapshot, Changelog, Goto, request, outside
  <1>17. CASE PushHalf
    <2>1. remote' \in [tag : BOOLEAN, branch : Snapshot]
      BY <1>17 DEF PushHalf, TypeOK
    <2>2. QED
      BY <1>17, <2>1 DEF PushHalf, TypeOK, Steps, Goto, request
  <1>18. CASE CommitByHand
    BY <1>18, CommitTyped DEF CommitByHand, TypeOK, request, outside
  <1>19. CASE DiscardByHand
    BY <1>19 DEF DiscardByHand, TypeOK, request, outside
  <1>20. CASE UNCHANGED vars
    BY <1>20 DEF vars, TypeOK
  <1>21. QED
    BY <1>1, <1>2, <1>3, <1>4, <1>5, <1>6, <1>7, <1>8, <1>9, <1>10, <1>11, <1>12, <1>13, <1>14, <1>15, <1>16, <1>17, <1>18, <1>19, <1>20 DEF Next, Step

(***************************************************************************)
(* The invariant.                                                           *)
(***************************************************************************)

\* The invariant holds in a clean checkout: nothing is released yet.
LEMMA InvInit == Init => ReleaseInv
  <1> SUFFICES ASSUME Init PROVE ReleaseInv
    OBVIOUS
  <1>1. TypeOK
    BY TypeInit
  <1>2. tree.pkg = old /\ tree.req = old /\ head = tree
    BY DEF Init, Checkout
  <1>3. ~Published("pkg", want)
    BY DEF Init, Published
  <1>4. VersionsMoveOn /\ RequirementFirst
    BY <1>2 DEF Init, VersionsMoveOn, RequirementFirst
  <1>5. PublishedIsCommitted /\ TagFirst
    BY <1>3 DEF Init, PublishedIsCommitted, TagFirst
  <1>6. DecidedFirst
    BY <1>2 DEF Init, DecidedFirst, Decided
  <1>7. PublicStateIsConsistent
    BY <1>3 DEF Init, PublicStateIsConsistent, PublishedRequiresItsMacros, TagIsPublished,
                ReleaseHasTag, Published
  <1>8. QED
    BY <1>1, <1>4, <1>5, <1>6, <1>7 DEF Init, ReleaseInv

\* Every step keeps it, one that fails or is undone by hand included.
LEMMA InvStep == ReleaseInv /\ [Next]_vars => ReleaseInv'
  <1> SUFFICES ASSUME ReleaseInv, [Next]_vars PROVE ReleaseInv'
    OBVIOUS
  <1>t. TypeOK /\ TypeOK'
    BY TypeStep DEF ReleaseInv
  <1> USE <1>t DEF ReleaseInv, VersionsMoveOn, RequirementFirst, PublishedIsCommitted, TagFirst, DecidedFirst,
                   Decided, PublicStateIsConsistent, PublishedRequiresItsMacros, TagIsPublished, ReleaseHasTag,
                   Published, Prerelease, Goto, request, outside
  <1>1. CASE Start
    BY <1>1 DEF Start
  <1>2. CASE BumpMacros
    BY <1>2 DEF BumpMacros
  <1>3. CASE RequireMacros
    BY <1>3 DEF RequireMacros
  <1>4. CASE BumpPackage
    BY <1>4 DEF BumpPackage
  <1>5. CASE RequirePackage
    BY <1>5 DEF RequirePackage
  <1>6. CASE Changes
    BY <1>6 DEF Changes
  <1>7. CASE ChangesErr
    BY <1>7 DEF ChangesErr
  <1>8. CASE Commit
    BY <1>8, CommitTyped DEF Commit
  <1>9. CASE PublishMacros
    BY <1>9 DEF PublishMacros
  <1>10. CASE PublishPackage
    <2>1. /\ tree.pkg = want
          /\ kind = "macros" => tree.req = want
          /\ tree.req \in Versions
      BY <1>10 DEF PublishPackage, TypeOK, Snapshot
    <2>2. CASE Published("pkg", want) /\ UNCHANGED crates
      BY <1>10, <2>1, <2>2 DEF PublishPackage
    <2>3. CASE /\ Clean
               /\ kind = "macros" => Published("mac", tree.req)
               /\ crates' = crates \cup {<<"pkg", want, tree.req>>}
      <3>1. PublishedIsCommitted'
        BY <1>10, <2>1, <2>3 DEF PublishPackage, Clean
      <3>2. PublishedRequiresItsMacros'
        BY <1>10, <2>1, <2>3 DEF PublishPackage
      <3>3. VersionsMoveOn' /\ RequirementFirst' /\ TagFirst' /\ DecidedFirst'
        BY <1>10, <2>1, <2>3 DEF PublishPackage
      <3>4. TagIsPublished' /\ ReleaseHasTag'
        BY <1>10, <2>1, <2>3 DEF PublishPackage
      <3>5. QED
        BY <1>10, <3>1, <3>2, <3>3, <3>4 DEF PublishPackage
    <2>4. QED
      BY <1>10, <2>1, <2>2, <2>3 DEF PublishPackage
  <1>11. CASE PublishErr
    BY <1>11 DEF PublishErr
  <1>12. CASE PushBranch
    <2>1. remote'.tag = remote.tag
      BY <1>12 DEF PushBranch, TypeOK
    <2>2. QED
      BY <1>12, <2>1 DEF PushBranch
  <1>13. CASE Tag
    <2>1. Published("pkg", want) /\ head.pkg = want /\ head \in Snapshot
      BY <1>13 DEF Tag, TypeOK
    <2>2. tag' # None /\ tag'.pkg = want
      BY <1>13, <2>1, NoneAssumption DEF Tag
    <2>3. QED
      BY <1>13, <2>1, <2>2 DEF Tag
  <1>14. CASE Push
    BY <1>14 DEF Push
  <1>15. CASE CreateRelease
    BY <1>15 DEF CreateRelease
  <1>16. CASE Stop
    BY <1>16 DEF Stop
  <1>17. CASE PushHalf
    BY <1>17 DEF PushHalf
  <1>18. CASE CommitByHand
    BY <1>18, CommitTyped DEF CommitByHand
  <1>19. CASE DiscardByHand
    BY <1>19 DEF DiscardByHand
  <1>20. CASE UNCHANGED vars
    BY <1>20 DEF vars
  <1>21. QED
    BY <1>1, <1>2, <1>3, <1>4, <1>5, <1>6, <1>7, <1>8, <1>9, <1>10, <1>11, <1>12, <1>13, <1>14, <1>15, <1>16, <1>17, <1>18, <1>19, <1>20 DEF Next, Step

(***************************************************************************)
(* Theorems.                                                                *)
(***************************************************************************)

\* The order in which ReleaseTask::run does its steps holds across its runs.
THEOREM ReleaseInvariant == Spec => []ReleaseInv
  BY InvInit, InvStep, PTL DEF Spec

\* Every variable holds what the tool or the outside can put there, in any
\* sequence of runs, interruptions and repairs by hand.
THEOREM ReleaseTypeCorrect == Spec => []TypeOK
  <1>1. ReleaseInv => TypeOK
    BY DEF ReleaseInv
  <1>2. QED
    BY <1>1, ReleaseInvariant, PTL

\* ReleaseTask::run leaves the public state consistent after every step,
\* wherever earlier runs have stopped: a crate on crates.io requires the macros
\* released with it, a tag names a commit that holds its version and is
\* published, and a GitHub release has its tag.
THEOREM PublicStateStaysConsistent == Spec => []PublicStateIsConsistent
  <1>1. ReleaseInv => PublicStateIsConsistent
    BY DEF ReleaseInv
  <1>2. QED
    BY <1>1, ReleaseInvariant, PTL

\* is_next lets no version pass unasked that does not come after the old one,
\* and no later run forgets to ask: a version that is not newer is published
\* only after a confirmation.
THEOREM NothingBackwardsUnasked == Spec => []NeverBackwardsUnasked
  <1>1. ReleaseInv => NeverBackwardsUnasked
    <2> SUFFICES ASSUME ReleaseInv, Published("pkg", want)
                 PROVE  old = want \/ asked \/ Before(old, want)
      BY DEF NeverBackwardsUnasked
    <2>1. tree.pkg = want
      BY DEF ReleaseInv, PublishedIsCommitted, VersionsMoveOn
    <2>2. old = want \/ asked \/ IsNext(old, want)
      BY <2>1 DEF ReleaseInv, DecidedFirst, Decided
    <2>3. QED
      BY <2>2, NextIsLater DEF ReleaseInv
  <1>2. QED
    BY <1>1, ReleaseInvariant, PTL

============================================================================
