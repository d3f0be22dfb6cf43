----------------------------- MODULE AtomicFile -----------------------------
(* What the write-back of the desktop frontend promises of the file of a      *)
(* user: the file changes only as a whole, and only to the image of the       *)
(* flash that the machine holds at that moment, in the shape of the content   *)
(* kind that was loaded.  ContentWriteback implements this specification.     *)
CONSTANTS Path,          \* the content files
          Flash,         \* the contents the flash can have
          Image(_, _)    \* Image(p, fl): flash contents fl in the shape of p

VARIABLES file,          \* the bytes on disk, a complete image for each path
          live           \* the flash of the running machine

vars == <<file, live>>

Init == /\ file \in [Path -> UNION {{Image(p, fl) : fl \in Flash} : p \in Path}]
        /\ live \in Flash

\* The machine changes its flash: an app writes, a state loads, a file opens.
Change == /\ live' \in Flash
          /\ UNCHANGED file

\* The file of p becomes the image of the current flash, in one step.
Replace(p) == /\ file' = [file EXCEPT ![p] = Image(p, live)]
              /\ UNCHANGED live

Next == Change \/ \E p \in Path : Replace(p)

Spec == Init /\ [][Next]_vars
=============================================================================
