---------------------------- MODULE Provisioners ----------------------------
(***************************************************************************)
(* The parties of the host's preparation that FreshStaging and             *)
(* DatabaseRoles name, and the value that stands for none of them.         *)
(***************************************************************************)

CONSTANTS Stager,       \* invocations of stage
          Destination,  \* staging directories
          Project,      \* Compose project names prepare may draw
          Initializer,  \* invocations of operator_database initialize
          Owner,        \* the database's owner, outside any initializer
          Nil

\* Nobody is not one of the processes, directories or projects.
ASSUME NobodyDistinct ==
  Nil \notin Stager \cup Destination \cup Project \cup Initializer \cup {Owner}
=============================================================================
