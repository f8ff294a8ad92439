---------------------------- MODULE MCPublished ----------------------------
(* Instances for TLC of what the public page of a concert is made of: the  *)
(* cached pages, and the biographies that are written in the background.   *)
(* The modules share no state: a behaviour is one of either, not of their  *)
(* product.                                                                *)
EXTENDS PublicPages, ArtistBio, TLC

CONSTANTS
  m1, pdf1, r1, r2, w1, w2,
  Subject        \* the modules that a behaviour may be of

\* Biographies with quotes, blanks and braces in them, of up to three artists,
\* one name in two cases, one without a summary and one without a name; alone,
\* in a fence, or with words around.
Artists ==
  [name : {<<"n">>, <<" ", "N">>}, summary : {<<"s", " ", " ", QuoteMark>>}]
    \cup {[name |-> <<"n">>, summary |-> <<" ">>], [name |-> <<>>, summary |-> <<"s">>]}
ThreeArtists == {[n \in 1 .. 3 |-> [name |-> << <<"n", "m", "k">>[n] >>, summary |-> <<"s">>]]}
Biographies ==
  [bio : {<<"a", " ", QuoteMark, "{">>, <<" ">>}, artists : BoundedSeq(Artists, 2) \cup ThreeArtists]
Wrappings ==
  {[before |-> <<>>, after |-> <<>>], [before |-> <<"sure", " ">>, after |-> <<" ", "bye">>],
   [before |-> <<Fence, "json", " ">>, after |-> <<" ", Fence, "bye">>]}
SmallNames == "N" :> "n"

VARIABLE subject

PublishedInit ==
  /\ subject \in Subject
  /\ PagesInit /\ BioInit /\ TextInit

PublishedNext ==
  /\ \/ subject = "pages" /\ PagesNext /\ UNCHANGED <<bioVars, textVars>>
     \/ subject = "biography" /\ BioNext /\ UNCHANGED <<pageVars, textVars>>
     \/ subject = "biography text" /\ TextNext /\ UNCHANGED <<pageVars, bioVars>>
  /\ UNCHANGED subject

\* The fairness of a module asks for nothing in its initial state.
PublishedSpec ==
  /\ PublishedInit
  /\ [][PublishedNext]_<<subject, pageVars, bioVars, textVars>>
  /\ PagesFairness /\ BioFairness
=============================================================================
