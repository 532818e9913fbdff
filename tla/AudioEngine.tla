------------------------------ MODULE AudioEngine ------------------------------
(***************************************************************************)
(* AudioEngineXAudio2: an endpoint, three mixing channels that hang on it, *)
(* and the players, whose voices send to the channels.  The engine opens   *)
(* and closes the endpoint while players live on, and tells them so.  All  *)
(* of it happens on the engine thread; destroy() is cut into its calls to  *)
(* XAudio2, which refuses to destroy a voice that others still send to.    *)
(***************************************************************************)
EXTENDS ListenerLists

CONSTANTS
  Player,          \* players, alive or not
  ListenerBound    \* bound: length of m_listeners, with the null entries

ASSUME ListenerAssumption == ListenerBound \in Nat /\ "nullptr" \notin Player

VARIABLES
  m_endpoint,      \* IXAudio2 exists
  m_mixing_channels,   \* the channels that exist
  m_listeners,
  channel,         \* channel[p]: the channel player p sends to, or "none" (dead)
  m_voices,        \* the players with a voice
  closing,         \* destroy(): "no", or "dispatched" until IXAudio2 is released
  refused          \* history: XAudio2 refused to destroy a channel in use

audioVars == <<m_endpoint, m_mixing_channels, m_listeners, channel, m_voices,
               closing, refused>>

Channel == {"direct", "sound_effect", "music"}
Nobody  == "nullptr"

Alive == {p \in Player : channel[p] # "none"}

AudioTypeOK ==
  /\ m_endpoint \in BOOLEAN /\ refused \in BOOLEAN
  /\ m_mixing_channels \in SUBSET Channel
  /\ m_listeners \in Seq(Player \cup {Nobody})
  /\ channel \in [Player -> Channel \cup {"none"}]
  /\ m_voices \in SUBSET Player
  /\ closing \in {"no", "dispatched"}

Listed == {p \in Player : \E i \in DOMAIN m_listeners : m_listeners[i] = p}

\* The list is rebuilt at the end of a dispatch, without the null entries.
Compacted == Erased(m_listeners, {Nobody})

------------------------------------------------------------------------------
\* create(): XAudio2Create, the mastering voice, the two submix voices, then
\* their sends and volumes.  Each may fail and leave what came before it; only
\* the last stage dispatches.
Stages == <<{}, {"direct"}, {"direct", "sound_effect"}, Channel>>

AudioInit ==
  /\ m_endpoint = FALSE /\ m_mixing_channels = {} /\ m_listeners = << >>
  /\ channel = [p \in Player |-> "none"] /\ m_voices = {}
  /\ closing = "no" /\ refused = FALSE

createFails ==
  /\ closing = "no" /\ ~ m_endpoint
  /\ \E i \in DOMAIN Stages : m_endpoint' = TRUE /\ m_mixing_channels' = Stages[i]
  /\ UNCHANGED <<m_listeners, channel, m_voices, closing, refused>>

\* dispatchOnAudioEndpointCreate: AudioPlayerXAudio2::create() for each; what
\* CreateSourceVoice refuses has no voice.
create ==
  /\ closing = "no" /\ ~ m_endpoint
  /\ m_endpoint' = TRUE /\ m_mixing_channels' = Channel
  /\ \E V \in SUBSET Listed : m_voices' = m_voices \cup V
  /\ m_listeners' = Compacted
  /\ UNCHANGED <<channel, closing, refused>>

\* destroy() of setAudioEndpoint and of the destructor: dispatch, ...
Destroyed == m_voices' = m_voices \ Listed

dispatchDestroy ==
  /\ closing = "no" /\ m_endpoint
  /\ Destroyed
  /\ m_listeners' = Compacted /\ closing' = "dispatched"
  /\ UNCHANGED <<m_endpoint, m_mixing_channels, channel, refused>>

\* ... closeMixingChannels, last channel first; a submix voice sends to direct
\* once its output is set, a source voice to the channel of its player, ...
Sends(c) ==
  \/ \E p \in m_voices : channel[p] = c
  \/ c = "direct" /\ m_mixing_channels \ {"direct"} # {}

LastChannel == CHOOSE c \in m_mixing_channels :
                 c = "direct" => m_mixing_channels = {"direct"}

closeMixingChannel ==
  /\ closing = "dispatched" /\ m_mixing_channels # {}
  /\ m_mixing_channels' = m_mixing_channels \ {LastChannel}
  /\ refused' = (refused \/ Sends(LastChannel))
  /\ UNCHANGED <<m_endpoint, m_listeners, channel, m_voices, closing>>

\* ... and the release of IXAudio2.
releaseEndpoint ==
  /\ closing = "dispatched" /\ m_mixing_channels = {}
  /\ m_endpoint' = FALSE /\ closing' = "no"
  /\ UNCHANGED <<m_mixing_channels, m_listeners, channel, m_voices, refused>>

------------------------------------------------------------------------------
\* A player reads the decoder, tries to get a voice and registers.  Without a
\* direct channel it does not try; CreateSourceVoice refuses a channel that
\* does not exist.
addEventListener(p) ==
  m_listeners' = IF p \in Listed THEN m_listeners ELSE Append(m_listeners, p)

createPlayer(p, c) ==
  /\ closing = "no" /\ p \notin Alive /\ Len(m_listeners) < ListenerBound
  /\ channel' = [channel EXCEPT ![p] = c]
  /\ \/ /\ "direct" \in m_mixing_channels /\ c \in m_mixing_channels
        /\ m_voices' = m_voices \cup {p}
     \/ UNCHANGED m_voices
  /\ addEventListener(p)
  /\ UNCHANGED <<m_endpoint, m_mixing_channels, closing, refused>>

\* ~AudioPlayerXAudio2.  The address may be that of a later player.
removeEventListener(p) ==
  m_listeners' = [i \in DOMAIN m_listeners |->
                    IF m_listeners[i] = p THEN Nobody ELSE m_listeners[i]]

destroyPlayer(p) ==
  /\ closing = "no" /\ p \in Alive
  /\ removeEventListener(p)
  /\ m_voices' = m_voices \ {p}
  /\ channel' = [channel EXCEPT ![p] = "none"]
  /\ UNCHANGED <<m_endpoint, m_mixing_channels, closing, refused>>

AudioNext ==
  \/ create \/ createFails
  \/ dispatchDestroy \/ closeMixingChannel \/ releaseEndpoint
  \/ \E p \in Player, c \in Channel \ {"direct"} : createPlayer(p, c)
  \/ \E p \in Player : destroyPlayer(p)

AudioSpec == AudioInit /\ [][AudioNext]_audioVars

------------------------------------------------------------------------------
\* The engine calls exactly the players that are alive, each once: none that
\* was destroyed and none twice, however destruction, compaction of the list
\* and reuse of an address follow on each other (m_listeners).
ListenersInv ==
  /\ Listed = Alive
  /\ \A i, j \in DOMAIN m_listeners :
       m_listeners[i] = m_listeners[j] /\ m_listeners[i] # Nobody => i = j

\* A voice has the channel it sends to, also when create() failed half-way and
\* players were made in between; no voice outlives IXAudio2.
VoicesHaveChannels ==
  \A p \in m_voices : p \in Alive /\ m_endpoint /\ channel[p] \in m_mixing_channels

\* No channel is destroyed while something sends to it, which XAudio2 refuses,
\* so that none outlives its endpoint: destroy() and closeMixingChannels take
\* them down in the right order.
NothingRefused == ~ refused

\* Listeners, channels and voices of the engine, however far its creation got.
AudioInv == AudioTypeOK /\ ListenersInv /\ VoicesHaveChannels /\ NothingRefused
==============================================================================
