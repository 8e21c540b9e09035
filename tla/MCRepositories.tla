--------------------------- MODULE MCRepositories ----------------------------
(***************************************************************************)
(* Small repositories and storage entries, for the instances of Controler  *)
(* and Client.                                                             *)
(***************************************************************************)
EXTENDS Naturals, TLC

Entry(kind, last, reqs) ==
  [kind |-> kind, current |-> 1, last |-> last, using |-> FALSE, reqs |-> reqs,
   wrapped |-> FALSE, title |-> "plain"]
Main(reqs) == Entry("main", 2, reqs)
Support(reqs) == Entry("support", 2, reqs)
Newer(reqs) == Entry("main", 3, reqs)

\* Main packages only.  1 and 2 share the requirement 3, which has one of its
\* own, and 5 would require 3 twice; a later repository has newer versions of
\* 2 and 3 and no 5.
Shared == 1 :> Main({3}) @@ 2 :> Main({3}) @@ 3 :> Main({4}) @@ 4 :> Main({})
            @@ 5 :> Main({1, 2})
Renewed == 1 :> Main({3}) @@ 2 :> Newer({3}) @@ 3 :> Newer({4}) @@ 4 :> Main({})
MainRepositories == {<<Shared>>, <<Renewed>>}
OneRepository == {<<Shared>>}

\* A wrapper that another package requires and newer packages of its title,
\* the nearest of which is not the newest; in the later repository the wrapper
\* requires nothing.
Software(version, reqs) ==
  [Newer(reqs) EXCEPT !.current = version, !.title = "software"]
Wrapper(reqs) == [Software(1, reqs) EXCEPT !.wrapped = TRUE]
Titled == 1 :> Main({2}) @@ 2 :> Wrapper({3}) @@ 3 :> Main({})
            @@ 4 :> Software(2, {3})
Retitled == 2 :> Wrapper({}) @@ 3 :> Main({}) @@ 4 :> Software(2, {3})
            @@ 5 :> Software(3, {})
WrapperRepositories == {<<Titled>>, <<Retitled>>}

\* What is linked may be a support package, which another one requires.
Linked == 1 :> Wrapper({}) @@ 3 :> Main({2})
            @@ 2 :> [Software(2, {}) EXCEPT !.kind = "support"]
LinkedRepositories == {<<Linked>>}

\* Support packages that users install, and a requirement that moves: 2 needs
\* 1 in one repository, 1 needs 2 in the next.
Before == 1 :> Main({}) @@ 2 :> Support({1}) @@ 3 :> Main({2})
After == 1 :> Main({2}) @@ 2 :> Support({}) @@ 3 :> Main({1})
MovingRepositories == {<<Before>>, <<After>>}

\* 2 needs 3 in the first repository; later 3 needs 5, and 1 and 4 are there.
Early == 2 :> Support({3}) @@ 3 :> Main({})
Late == 1 :> Main({2}) @@ 2 :> Support({}) @@ 3 :> Main({5})
          @@ 4 :> Main({3}) @@ 5 :> Main({})
GrowingRepositories == {<<Early>>, <<Late>>}

\* Two repositories that are tried in turn: 2 needs 4 only in the second.
One == 2 :> Main({4}) @@ 4 :> Main({})
Two == 1 :> Main({2, 4}) @@ 2 :> Main({}) @@ 4 :> Main({})
TwoRepositories == {<<One, Two>>}

\* What the runs are about: sets of repositories that replace each other.
Titles == {"plain", "software"}
ControlerFamilies == {MainRepositories, WrapperRepositories,
                      LinkedRepositories, MovingRepositories}
ClientFamilies == {OneRepository, TwoRepositories, WrapperRepositories,
                   MovingRepositories}
MovingFamily == {MovingRepositories}
GrowingFamily == {GrowingRepositories}
TwoFamily == {TwoRepositories}
WrapperFamily == {WrapperRepositories}
=============================================================================
