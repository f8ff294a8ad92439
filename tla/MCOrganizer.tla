---------------------------- MODULE MCOrganizer ----------------------------
(* Instances of what an organizer asks the backend for, for TLC: ticket    *)
(* types, posters, guest lists, scanner devices, and the cancellation of a *)
(* concert.  The modules share no state: a behaviour is one of any of them, *)
(* not of their product.                                                   *)
EXTENDS ConcertPoster, GuestList, ScannerDevices, TicketTypes, ConcertCancellation, TLC

CONSTANTS
  m1, m2, csv1, csv2, csv3, guest1, i1, i2, d1, g1,
  Ann, k1, vip, c1, w1, h1, h2, a1,
  Subject        \* the modules that a behaviour may be of

OneSeat == [t \in TicketType |-> 1]

\* Every file names the same guest, or every file another one.
SameGuest == [f \in Csv |-> {guest1}]
OwnGuest == [f \in Csv |-> {f}]

\* Tables of one or two guests, and some that are no guest list.  The words of
\* a name hold what sets cells, rows and quotes apart; "9" is a digit.
Name == {<<" ", "Ann", ",", "Bob">>, <<Quote, "Ann", Quote, Quote>>,
         <<"Ann", "\n", "Bob", ";">>, <<>>}
Mail == {<<"a@x.vn">>, <<"A@x.vn">>, <<"a@x.vn", " ", "x">>, <<>>}
Phone == {<<"9", "-", "9">>, <<"+", "9", "+", "9">>, <<"9">>}
TwoColumns ==
  [heads : {<< <<"Full-Name">>, <<"email">> >>}, rows : BoundedSeq({<<n, m>> : n \in Name, m \in Mail}, 2)]
ThreeColumns ==
  [heads : {<< <<"email">>, <<"phone">>, <<"Full-Name", " ">> >>},
   rows : BoundedSeq({<<m, p, <<"Ann">> >> : m \in {<<"A@x.vn">>, <<>>}, p \in Phone} \cup {<< <<"a@x.vn">> >>}, 2)]
NoList ==
  [heads : {<< <<"Full-Name">> >>, << <<"email">>, <<>> >>, << <<"Full-Name">>, <<"shoes">>, <<"email">> >>,
            << <<"email">>, <<"Full-Name">>, <<"email">> >>, << <<"sponsor_id">>, <<"Full-Name">> >>},
   rows : {<<>>, << << <<"Ann">>, <<"Ann">> >> >>}]
Tables == TwoColumns \cup ThreeColumns \cup NoList
Dialects ==
  [delimiter : {",", ";", "\t"}, end : {<<"\n">>, <<"\r", "\n">>}, quoteAll : BOOLEAN]
Headings == ("Full-Name" :> "full_name") @@ [h \in Allowed |-> h]
LowerCase == "A@x.vn" :> "a@x.vn" @@ "Ann" :> "ann"
KnownOnes == {{}, {<<"email", <<"a@x.vn">> >>}}

VARIABLE subject

OrganizerInit ==
  /\ subject \in Subject
  /\ PosterInit /\ GuestInit /\ CsvInit /\ DevicesInit /\ TypesInit /\ CancelInit

allVars == <<posterVars, guestVars, csvVars, deviceVars, typeVars, cancelVars>>

OrganizerNext ==
  /\ \/ /\ subject = "poster" /\ PosterNext
        /\ UNCHANGED <<guestVars, csvVars, deviceVars, typeVars, cancelVars>>
     \/ /\ subject = "guests" /\ GuestNext
        /\ UNCHANGED <<posterVars, csvVars, deviceVars, typeVars, cancelVars>>
     \/ /\ subject = "guest file" /\ CsvNext
        /\ UNCHANGED <<posterVars, guestVars, deviceVars, typeVars, cancelVars>>
     \/ /\ subject = "devices" /\ DevicesNext
        /\ UNCHANGED <<posterVars, guestVars, csvVars, typeVars, cancelVars>>
     \/ /\ subject = "ticket types" /\ TypesNext
        /\ UNCHANGED <<posterVars, guestVars, csvVars, deviceVars, cancelVars>>
     \/ /\ subject = "cancellation" /\ CancelNext
        /\ UNCHANGED <<posterVars, guestVars, csvVars, deviceVars, typeVars>>
  /\ UNCHANGED subject

OrganizerSpec == OrganizerInit /\ [][OrganizerNext]_<<subject, allVars>>
=============================================================================
