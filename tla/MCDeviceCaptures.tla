-------------------------- MODULE MCDeviceCaptures -------------------------
EXTENDS DeviceCaptures

Data == <<"/", "data">>
App == <<"/", "data", "/", "app">>
AppFlat == <<"/", "data", "_", "app">>
Foo == <<"/", "data", "foo">>
Slashed == <<" ", "/", "/", "data", "/">>
Photos == <<"/", "sdcard", "/", "DCIM">>
Oem == <<"/", "oem">>
Card == <<"/", "storage", "/", "1A2B">>
Proc == <<"/", "proc", "/", "kcore">>
Up == <<"/", "data", "/", "..", "/", "proc">>

\* Everything named here is on the device except /oem.
MCPresent == {Data, App, AppFlat, Foo, Sdcard, Photos, <<"/", "storage">>, Card}
MCCards == <<Card>>
MCEntries == {"DCIM", "Music"}

Asked == {Data, App, AppFlat, Foo, Slashed, Photos, Sdcard, Proc, Up, <<"/">>, <<"data">>, <<" ">>}
MCLists == UNION {[1..n -> Asked] : n \in 0..2}
           \cup [1..3 -> {Data, App, Foo, Slashed}]
           \cup {DefaultCaptureRoots, <<App, AppFlat, Oem>>, <<Photos, Foo, Data>>}

Request(mode, withShared, list) == [mode |-> mode, shared |-> withShared, paths |-> list]
MCRequests ==
  {Request("standard", TRUE, <<App, AppFlat>>), Request("standard", FALSE, <<AppFlat, App>>),
   Request("standard", TRUE, <<Photos, Foo, Data>>), Request("standard", FALSE, <<Photos>>),
   Request("root", TRUE, <<>>), Request("root", TRUE, <<Slashed, Sdcard>>),
   Request("root", FALSE, <<App, AppFlat, Oem>>)}

\* What SuccessLeavesNothingOut assumes of the device.
ASSUME DeviceHasNoBlankEnds == NoBlankEnds
=============================================================================
