-------------------------- MODULE MCPersonalData --------------------------
EXTENDS PersonalData

\* Three contacts, two of them read at a time: one has no lookup key, another
\* nothing identifying in the data table.
MCDevice ==
  [contacts |-> <<"ada", "bob", "eve">>, sms |-> <<"s1">>, call_log |-> <<"c1">>,
   messages |-> <<"m1">>, parts |-> <<"smil", "jpg", "mp4">>,
   calendars |-> <<"work">>, events |-> <<"e1", "e2">>,
   system |-> <<"volume">>, secure |-> <<>>, global |-> <<"adb">>]

MCPartType == [smil |-> "smil", jpg |-> "file", mp4 |-> "file"]

\* The newest store is not there, the next holds a network that cannot be
\* re-added, and an older one was left behind by an update.
MCStores == <<<<>>, <<"home", "office">>, <<"former">>>>
=============================================================================
