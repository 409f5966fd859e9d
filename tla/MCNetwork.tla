----------------------------- MODULE MCNetwork -----------------------------
(***************************************************************************)
(* Two subnets with a BBMD and a host each, and one foreign device; and    *)
(* the messages to try: for each service the optional fields present and   *)
(* absent, integers at the edges of their widths, and lengths at the edges *)
(* of the tag encoding (4, 5, 253, 254) and of the extended tags.          *)
(***************************************************************************)
EXTENDS Network
LOCAL INSTANCE SequencesExt
LOCAL INSTANCE TLC

CONSTANTS b1, b2, h1, h2, f1

MCSubnetOf == (h1 :> b1) @@ (h2 :> b2)
MCHome == f1 :> b1
MCMasks == {[b \in BBMDs |-> "unicast"], [b \in BBMDs |-> "directed"]}

MCClient == <<10, 0, 0, 1, 186, 192>>
MCServer == <<10, 0, 0, 2, 186, 192>>
MCBroker == <<10, 0, 1, 3, 186, 192>>
MCNearPort == <<10, 0, 0, 4, 186, 192>>
MCFarPort == <<10, 1, 0, 4, 255, 255>>
MCWays == {{}, {"bbmd"}, {"router"}}

zero == <<0, 0, 0, 0>>
one4 == <<0, 0, 0, 1>>
top == <<255, 255, 255, 255>>
edges == <<zero, <<0, 0, 0, 127>>, <<0, 0, 0, 128>>, <<0, 0, 0, 255>>, <<0, 0, 1, 0>>, <<0, 0, 255, 255>>,
           <<0, 255, 255, 255>>, <<127, 255, 255, 255>>, <<128, 0, 0, 0>>, top>>
device == <<8, 4194302>>
point == <<2, 1>>
ids == <<point, <<0, 0>>, <<1023, 4194303>>, <<3, 65536>>, <<4, 4194303>>>>
text(n) == [i \in 1 .. n + 1 |-> i % 7]
octetsOf(n) == [i \in 1 .. n |-> (i * 37) % 256]
noon == <<12, 0, 0, 0>>
someday == <<124, 2, 29, 4>>
flags3 == <<5, 160>>
stamps == <<<<"time", noon>>, <<"sequence", top>>, <<"sequence", zero>>, <<"dateTime", someday, noon>>>>

signedEdges == <<<<0, 0, 0, 0, 0, 0, 0, 0>>, <<0, 0, 0, 0, 0, 0, 0, 127>>, <<0, 0, 0, 0, 0, 0, 0, 128>>,
                 <<255, 255, 255, 255, 255, 255, 255, 128>>, <<255, 255, 255, 255, 255, 255, 255, 127>>,
                 <<0, 0, 0, 0, 0, 0, 128, 0>>, <<255, 255, 255, 255, 255, 0, 0, 0>>,
                 <<128, 0, 0, 0, 0, 0, 0, 0>>, <<127, 255, 255, 255, 255, 255, 255, 255>>>>
over(f(_), s) == [i \in 1 .. Len(s) |-> f(s[i])]

\* Values of every kind.
values ==
    <<Value("null", <<>>), Value("boolean", TRUE), Value("boolean", FALSE),
      Value("unsigned", zeros(8)), Value("unsigned", <<255, 255, 255, 255, 255, 255, 255, 255>>),
      Value("unsigned", <<0, 0, 0, 0, 0, 0, 1, 0>>), Value("enumerated", top), Value("enumerated", zero),
      Value("real", <<63, 128, 0, 0>>), Value("double", zeros(8)), Value("octets", <<>>),
      Value("octets", octetsOf(4)), Value("octets", octetsOf(5)), Value("octets", octetsOf(253)),
      Value("octets", octetsOf(254)), Value("octets", octetsOf(300)), Value("string", text(0)),
      Value("string", text(252)), Value("string", text(253)), Value("bits", <<0>>), Value("bits", <<7, 128>>),
      Value("date", someday), Value("time", noon), Value("objectID", <<1023, 4194303>>),
      Value("constructed", <<>>),
      Value("constructed", <<App(Value("real", zero)), App(Value("null", <<>>))>>),
      Value("constructed", <<Raw(0, <<1>>)>>), Value("constructed", <<Raw(14, octetsOf(5))>>),
      Value("constructed", <<Raw(15, octetsOf(254))>>), Value("constructed", <<Raw(254, <<>>)>>),
      Value("constructed", <<Constructed(3, <<Constructed(15, <<Raw(1, <<0>>)>>)>>)>>)>>
    \o over(LAMBDA x : Value("signed", x), signedEdges)

real == Value("real", <<66, 40, 0, 0>>)
written(v, priority) == <<<<0, 0, 0, 85>>, None, v, priority>>
notification(values4) == <<top, device, point, zero, values4>>
event(stamp, textOrNone, ackOrNone, from) ==
    <<one4, device, point, stamp, <<0, 0, 0, 3>>, <<255>>, <<0, 0, 0, 5>>, textOrNone, zero, ackOrNone, from, <<0, 0, 0, 2>>>>
multiple(stamp, objects) == <<one4, device, <<0, 0, 1, 44>>, stamp, objects>>

reading == <<point, <<0, 0, 0, 85>>, None>>
covNotes == <<notification(<<written(real, None)>>), notification(<<written(real, <<16>>), written(values[1], <<1>>)>>),
              notification(<<>>), notification(<<written(real, <<0>>)>>)>>
eventNotes == over(LAMBDA s : event(s, None, None, None), stamps)
              \o <<event(stamps[1], text(3), TRUE, top), event(stamps[2], text(0), FALSE, zero)>>
multipleNotes == <<multiple(None, <<<<point, <<<<top, None, real, None>>>>>>>>),
                   multiple(<<someday, noon>>, <<<<point, <<<<one4, zero, real, noon>>, <<zero, None, real, None>>>>>>,
                                                 <<<<5, 5>>, <<<<one4, None, values[26], None>>>>>>>>)>>
privates == <<<<<<255, 255>>, top, <<>>>>, <<<<0, 0>>, zero, <<App(real), Raw(1, <<2>>)>>>>>>
texts == <<<<device, None, <<0>>, octetsOf(0)>>, <<device, top, <<1>>, octetsOf(252)>>, <<point, zero, <<255>>, octetsOf(253)>>>>
times == <<<<someday, noon>>, <<<<255, 255, 255, 255>>, <<255, 255, 255, 255>>>>>>
lists == <<<<point, one4, None, <<App(real)>>>>, <<point, top, zero, <<Raw(0, <<1>>), Constructed(1, <<App(real)>>)>>>>,
           <<point, one4, None, <<>>>>>>
errors == <<<<<<0, 2>>, <<0, 32>>>>, <<<<255, 255>>, <<255, 255>>>>, <<<<0, 0>>, <<0, 0>>>>>>
ranged(p, s, t) == <<<<20, 1>>, <<0, 0, 0, 131>>, None, p, None, None, s, t>>
counts == <<one4, <<255, 255, 255, 255>>, <<127, 255, 255, 255>>, <<128, 0, 0, 1>>, <<128, 0, 0, 0>>, zero,
            <<0, 0, 0, 128>>, <<255, 255, 255, 128>>, <<255, 255, 255, 127>>>>
rangeACK(count, items, first) == <<<<20, 1>>, <<0, 0, 0, 131>>, None, flags3, count, items, first>>

MCSamples == [
  SimpleACK |-> <<<<>>>>,
  WhoIs |-> <<<<None, None>>, <<zero, <<0, 63, 255, 255>>>>, <<zero, one4>>, <<one4, zero>>, <<zero, None>>,
              <<top, top>>>>,
  IAm |-> <<<<device, <<5, 196>>, <<3>>, <<0, 15>>>>, <<device, <<255, 255>>, <<0>>, <<255, 255>>>>,
            <<device, <<0, 50>>, <<4>>, <<0, 0>>>>, <<point, <<5, 196>>, <<3>>, <<0, 15>>>>>>,
  WhoHas |-> <<<<None, None, point, None>>, <<None, None, None, text(5)>>, <<zero, top, <<1023, 4194303>>, None>>,
               <<one4, zero, point, None>>, <<zero, one4, None, text(253)>>, <<None, None, point, text(1)>>>>,
  IHave |-> <<<<device, point, text(3)>>, <<device, <<1023, 0>>, text(254)>>, <<point, point, text(3)>>>>,
  ReadProperty |-> <<reading>> \o over(LAMBDA id : <<id, zero, None>>, ids)
                   \o over(LAMBDA e : <<point, e, None>>, edges) \o over(LAMBDA e : <<point, one4, e>>, edges),
  ReadPropertyACK |-> over(LAMBDA v : <<point, one4, None, v>>, values) \o <<<<point, one4, top, real>>>>,
  WriteProperty |-> over(LAMBDA v : <<point, one4, None, v, None>>, values)
                    \o over(LAMBDA p : <<point, one4, zero, real, p>>, <<<<1>>, <<16>>, <<0>>, <<17>>>>),
  ReadPropertyMultiple |-> <<<<<<point, <<<<one4, None>>>>>>>>, <<>>, <<<<point, <<>>>>>>,
                             <<<<point, <<<<top, zero>>, <<zero, None>>>>>>, <<<<0, 0>>, <<<<one4, top>>>>>>>>>>,
  ReadPropertyMultipleACK |-> <<<<<<point, <<<<None, None, one4, None, real, None>>>>>>>>, <<>>,
                                <<<<point, <<<<None, None, one4, zero, values[26], None>>,
                                             <<None, None, top, None, None, errors[2]>>>>>>,
                                  <<<<1, 1>>, <<<<None, None, zero, None, values[15], None>>>>>>>>>>,
  WritePropertyMultiple |-> <<<<<<point, <<written(real, None)>>>>>>, <<>>, <<<<point, <<>>>>>>,
                              <<<<point, <<written(real, <<16>>), written(values[14], <<1>>)>>>>,
                                <<<<4, 4>>, <<<<top, top, values[27], None>>>>>>>>>>,
  WritePropertyMultipleError |-> <<<<errors[1], <<point, one4, None>>>>, <<errors[2], <<<<1023, 4194303>>, top, top>>>>>>,
  Error |-> errors,
  AddListElement |-> lists, RemoveListElement |-> lists,
  ReadRange |-> <<ranged(None, None, None)>> \o over(LAMBDA c : ranged(<<one4, c>>, None, None), counts)
                \o <<ranged(None, <<top, one4>>, None), ranged(None, None, <<someday, noon, <<255, 255, 255, 246>>>>)>>,
  ReadRangeACK |-> <<rangeACK(zero, <<>>, None), rangeACK(one4, <<real>>, one4),
                     rangeACK(<<0, 0, 0, 2>>, <<real, values[1]>>, top), rangeACK(one4, <<>>, None),
                     rangeACK(zero, <<real>>, None)>>,
  CreateObject |-> <<<<<<"type", <<0, 2>>>>, <<>>>>, <<<<"type", <<4, 0>>>>, <<>>>>, <<<<"id", point>>, <<written(real, None)>>>>,
                     <<<<"type", <<3, 255>>>>, <<written(real, <<16>>), written(values[1], None)>>>>,
                     <<<<"id", point>>, <<written(real, <<17>>)>>>>>>,
  CreateObjectACK |-> over(LAMBDA id : <<id>>, ids), DeleteObject |-> over(LAMBDA id : <<id>>, ids),
  AtomicReadFile |-> over(LAMBDA c : <<<<10, 1>>, "stream", c, top>>, counts) \o <<<<<<10, 1>>, "record", one4, zero>>>>,
  AtomicReadFileACK |-> <<<<TRUE, "stream", zero, <<octetsOf(0)>>, zero>>, <<FALSE, "stream", <<128, 0, 0, 0>>, <<octetsOf(254)>>, zero>>,
                          <<FALSE, "record", one4, <<octetsOf(4), octetsOf(5)>>, <<0, 0, 0, 2>>>>,
                          <<TRUE, "record", top, <<>>, zero>>>>,
  AtomicWriteFile |-> over(LAMBDA c : <<<<10, 1>>, "stream", c, <<octetsOf(5)>>>>, counts)
                      \o <<<<<<10, 1>>, "record", top, <<octetsOf(0), octetsOf(253)>>>>, <<<<10, 1>>, "record", zero, <<>>>>>>,
  AtomicWriteFileACK |-> over(LAMBDA c : <<"stream", c>>, counts) \o <<<<"record", top>>>>,
  SubscribeCOV |-> <<<<one4, point, TRUE, <<0, 0, 1, 44>>>>, <<top, point, FALSE, zero>>, <<zero, point, None, None>>>>,
  SubscribeCOVProperty |-> <<<<one4, point, TRUE, one4, <<one4, None>>, None>>, <<one4, point, FALSE, top, <<top, zero>>, <<63, 0, 0, 0>>>>,
                             <<one4, point, None, None, <<one4, None>>, None>>>>,
  SubscribeCOVPropertyMultiple |-> <<<<one4, TRUE, one4, None, <<<<point, <<<<<<one4, None>>, None, FALSE>>>>>>>>>>,
                                     <<top, FALSE, zero, top, <<<<point, <<<<<<one4, zero>>, <<63, 0, 0, 0>>, TRUE>>,
                                       <<<<zero, None>>, None, FALSE>>>>>>, <<<<1, 1>>, <<<<<<one4, None>>, None, TRUE>>>>>>>>>>,
                                     <<one4, None, None, None, <<<<point, <<<<<<one4, None>>, None, FALSE>>>>>>>>>>,
                                     <<one4, TRUE, one4, None, <<>>>>>>,
  ConfirmedCOVNotification |-> covNotes, UnconfirmedCOVNotification |-> covNotes,
  ConfirmedCOVNotificationMultiple |-> multipleNotes, UnconfirmedCOVNotificationMultiple |-> multipleNotes,
  ConfirmedEventNotification |-> eventNotes, UnconfirmedEventNotification |-> eventNotes,
  AcknowledgeAlarm |-> over(LAMBDA s : <<one4, point, top, s, text(2), stamps[4]>>, stamps)
                       \o <<<<zero, point, zero, stamps[2], text(253), stamps[1]>>>>,
  GetAlarmSummary |-> <<<<>>>>,
  GetAlarmSummaryACK |-> <<<<>>, <<<<point, top, flags3>>, <<<<1, 1>>, zero, <<5, 0>>>>>>>>,
  GetEnrollmentSummary |-> <<<<<<0>>, None, None, None, None, None>>,
                             <<<<2>>, <<<<"device", device>>, top>>, one4, top, <<zero, <<0, 0, 0, 255>>>>, one4>>,
                             <<<<255>>, <<<<"address", <<255, 255>>, octetsOf(6)>>, zero>>, None, one4, None, top>>,
                             <<<<1>>, None, None, None, <<zero, <<0, 0, 1, 0>>>>, None>>>>,
  GetEnrollmentSummaryACK |-> <<<<<<point, one4, zero, <<0, 0, 0, 255>>, top>>, <<point, top, top, zero, None>>>>, <<>>,
                                <<<<point, one4, zero, <<0, 0, 1, 0>>, None>>>>>>,
  GetEventInformation |-> <<<<None>>, <<point>>>>,
  GetEventInformationACK |-> <<<<<<>>, FALSE>>,
       <<<<<<point, top, flags3, <<App(real)>>, zero, <<5, 224>>, <<App(Value("unsigned", zeros(8)))>>>>,
           <<<<1, 1>>, zero, <<5, 0>>, <<>>, one4, flags3, <<>>>>>>, TRUE>>>>,
  DeviceCommunicationControl |-> <<<<None, <<0>>, None>>, <<<<255, 255>>, <<2>>, text(20)>>, <<<<0, 0>>, <<1>>, text(0)>>,
                                   <<None, <<3>>, None>>, <<None, <<0>>, text(21)>>>>,
  ReinitializeDevice |-> <<<<<<0>>, None>>, <<<<7>>, text(20)>>, <<<<8>>, None>>, <<<<1>>, text(21)>>>>,
  ConfirmedPrivateTransfer |-> privates, UnconfirmedPrivateTransfer |-> privates,
  ConfirmedTextMessage |-> texts, UnconfirmedTextMessage |-> texts,
  TimeSynchronization |-> times, UTCTimeSynchronization |-> times,
  WriteGroup |-> <<<<one4, <<1>>, <<Raw(0, <<1>>), App(real)>>, None>>, <<top, <<255>>, <<App(real)>>, TRUE>>, <<zero, <<0>>, <<>>, FALSE>>>>,
  LifeSafetyOperation |-> <<<<one4, octetsOf(3), zero, None>>, <<top, octetsOf(253), top, point>>>>,
  VTOpen |-> <<<<one4, <<0>>>>, <<top, <<255>>>>>>, VTOpenACK |-> <<<<<<0>>>>, <<<<255>>>>>>,
  VTData |-> <<<<<<1>>, octetsOf(0), <<0>>>>, <<<<255>>, octetsOf(254), <<1>>>>>>,
  VTDataACK |-> <<<<TRUE, None>>, <<FALSE, top>>>>,
  Segment |-> <<<<TRUE, 0, 1>>, <<TRUE, 255, 127>>, <<FALSE, 1, 16>>, <<TRUE, 0, 0>>, <<TRUE, 0, 128>>>>,
  SegmentACK |-> <<<<FALSE, 0, 1>>, <<TRUE, 255, 127>>, <<FALSE, 0, 0>>, <<FALSE, 0, 128>>>>]
=============================================================================
