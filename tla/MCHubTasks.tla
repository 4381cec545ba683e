------------------------------ MODULE MCHubTasks ------------------------------
(* Two tasks for TLC: an installation of the package that the other task       *)
(* downloads, with one place for downloads; and a removal of the editor that   *)
(* the other task installs, where the second goes before the first.            *)
EXTENDS HubTaskProperties

Task(kind, packages, target, created) ==
    [kind |-> kind, packages |-> packages, target |-> target, created |-> created]
Pairs == {
    <<Task("Install", {"a"}, "editor", 1), Task("Download", {"a"}, None, 2)>>,
    <<Task("Remove", {}, "editor", 2), Task("Install", {"a"}, "editor", 1)>>}
=============================================================================
