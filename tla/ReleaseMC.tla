----------------------------- MODULE ReleaseMC -----------------------------
EXTENDS Release

Version(major, minor, patch, pre) ==
    [major |-> major, minor |-> minor, patch |-> patch, pre |-> pre]

\* A release, what the tool lets follow it, a minor bump and the last number a
\* prerelease can have.
MCVersions == {Version(1, 0, 0, NoPre), Version(1, 0, 1, NoPre), Version(1, 1, 0, NoPre),
               Version(1, 0, 1, Alpha(1)), Version(1, 0, 1, Beta(1)), Version(1, 0, 1, Beta(255))}
====
