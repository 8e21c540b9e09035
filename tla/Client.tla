------------------------------- MODULE Client -------------------------------
(***************************************************************************)
(* The menu of the client (client_app.cpp) on top of the controler.  It    *)
(* removes through the package manager and not through the controler, and  *)
(* its handler of exceptions breaks the cycles of a package it never has:  *)
(* its own shared_ptr stays null, and the process ends there.              *)
(***************************************************************************)
EXTENDS Controler

\* What the loop does with the exception of an option.
Caught == running' = (answer' # "cycle found")

\* Options 1 and 4.
AddOption(n) == AddPackage(n) /\ Caught
RemoveUnuseOption == RemoveUnuse /\ Caught

\* Option 2.  The storage file is not written.
RemoveOption(n) ==
  \E w \in Removed(n) : /\ Settle(w)
                        /\ answer' = Outcome(w.failed)
                        /\ UNCHANGED <<storage, running>>

\* Option 2, when map_erase_visit comes back to the package it removes: it
\* goes on in memory that is free, which may end the process.
RemoveFreed(n) ==
  /\ Has(World, n)
  /\ Frees(At(World, n))
  /\ Settle(EmptyWorld)
  /\ answer' = "memory fault"
  /\ running' = FALSE
  /\ UNCHANGED storage

Option ==
  /\ running
  /\ UNCHANGED repos
  /\ \/ \E n \in Name : AddOption(n) \/ RemoveOption(n) \/ RemoveFreed(n)
     \/ RemoveUnuseOption

\* The program starts with the name of a backup file or without one, and ends
\* with option 9 or the end of its input.  Option 7 replaces the repository
\* files by those of the server.
ClientNext == \/ Option
              \/ \E n \in Name : \E r \in PackageReadings(n) : Overrun(r)
              \/ NewRepositories
              \/ Stop
              \/ Start

ClientSpec == Init /\ [][ClientNext]_vars

-----------------------------------------------------------------------------
(* Properties *)

\* A package requires the same in whatever repository it is, those that may
\* come included.
Agreeing ==
  \A list, other \in Family : \A i \in DOMAIN list, j \in DOMAIN other :
    \A n \in DOMAIN list[i] \cap DOMAIN other[j] :
      list[i][n].reqs = other[j][n].reqs

\* Nothing that is installed is lost with the process: although option 2 does
\* not write the file, the file has all that is installed, and the next
\* process can start from it - as long as the repositories have main packages
\* only, agree on what these require and are not replaced.
NothingLost ==
  running /\ MainOnly /\ Agreeing /\ Family = {repos} =>
    /\ Readable(storage)
    /\ NamesOf(map) \subseteq StoredNames(storage)

\* Option 2 does not come back to the package it removes, whatever was
\* installed and removed before.  It does not look at the storage file, and
\* goes on when a write that failed has left that empty; with support packages
\* such a write leaves a circle that it was about to cut, and nothing is said.
OptionTargetOutlives ==
  running /\ (MainOnly \/ storage # Truncated) => \A o \in map : ~Frees(o)

\* No option takes away a package that a user asked for, but option 2 the one
\* it is called for.
OptionsKeepUsers ==
  [][running /\ running' =>
       \A n \in NamesOf(Users(World)) \ NamesOf(Users(World))' :
         RemoveOption(n)]_vars
=============================================================================
