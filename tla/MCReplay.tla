------------------------------ MODULE MCReplay ------------------------------
(* Database for TLC beside a second database on which the same options are   *)
(* set one by one after its Init.                                            *)
EXTENDS Database

VARIABLES
  live,    \* the fields, had every option been set on a live object
  clean    \* no option was refused

Uri(authority, params) ==
  [scheme |-> TRUE, fragment |-> FALSE, slashes |-> TRUE, path |-> "db",
   authority |-> authority, params |-> params]
TheOptions ==
  {<<"uri", Uri(None, <<>>)>>, <<"uri", Uri("e1", <<[key |-> "quota", value |-> "q", escaped |-> TRUE]>>)>>,
   <<"endpoint", "e1">>, <<"endpoint", "e2">>, <<"quota", "">>}

MCInit == Init /\ live = NewDatabase /\ clean = TRUE

SetBoth(key, value) ==
  LET now == set_option(live, key, value)
  IN /\ SetOption(key, value)
     /\ live' = now.cfg
     /\ clean' = (clean /\ now.ok)

MCNext ==
  \/ \E o \in Options : SetBoth(o[1], o[2])
  \/ (database_init \/ new_connection \/ SetHost) /\ UNCHANGED <<live, clean>>

MCSpec == MCInit /\ [][MCNext]_<<vars, live, clean>>

(* "what makes the replay mean the same thing as setting the options one by  *)
(* one on a live object" (src/ffi/options.rs): after an Init the fields are  *)
(* those of the live database.                                               *)
ReplayMeansTheSame == staged = "Ready" /\ clean => cfg = live
=============================================================================
