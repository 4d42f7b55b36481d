--------------------------- MODULE MCCalibration ---------------------------
(* Calibration with answers that differ in size, words and lines.  The run is
   at the root of a site, where the payload or a string may name the directory
   admin, and in a recursion job below admin. *)
EXTENDS Calibration

CONSTANTS root, admin, deeper     \* /, /admin/ and /admin/admin/ of a site

MCBases == {"root job", "admin job"}
MCParts == {"file", "admin/"}
MCHostOf == [b \in MCBases |-> [p \in MCParts |->
               CASE b = "root job" /\ p = "file"    -> root
                 [] b = "admin job" /\ p = "admin/" -> deeper
                 [] OTHER                           -> admin]]

Response(s, w, l) == [size |-> s, word |-> w, line |-> l]
MCAnswers == {Response(1, 1, 1), Response(2, 1, 1), Response(3, 2, 1)}
MCMatchers == [size |-> {}, word |-> {1, 2}, line |-> {1}]
MCPartOf == [g \in Groups |-> [i \in 1..Strings |->
               IF g = "files" THEN "file" ELSE "admin/"]]
MCFilters == [size |-> {}, word |-> {2}, line |-> {}]
=============================================================================
