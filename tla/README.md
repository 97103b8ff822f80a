# wiiradio in TLA+

wiiradio is an internet radio and music player for the Wii and the PC: one C++
program on SDL (threads, mutexes, audio, drawing), libmad (mp3) and Lua (the
buttons of a skin). This directory keeps a TLA+ model of its parts, the TLC
configurations that check them on small instances, and TLAPS proofs of what holds
for every instance. Line numbers are those of `src/source/`; `PROJECT.json` maps
each definition to the lines it stands for.

## 1. Inventory

### Threads

| thread | code | what it does to the player |
|---|---|---|
| GUI loop | `wrMain`, application.cpp:1859-1940 | runs the callback of the button clicked (functions.cpp), `check_status`, the scripts and the drawing |
| `critical_thread` | application.cpp:1020-1101 | opens connections, receives the stream |
| decoder | `audio_thread`, sound_sdl.cpp:9-46 | decodes into the audio ring; created by `sound_start`, joined by `sound_stop` |
| SDL callback | `MixAudio`, sound_sdl.cpp:48-114 | plays from the audio ring |
| `search_thread` | application.cpp:953-1017 | directory searches, one at a time; it writes the list of stations, not the status |
| `finder_thread` | localfiles.cpp:42-136 | lists and sorts a local folder |

Four mutexes: `connect_mutex` (connection, stream, source), `audio_mutex` (ring and
device), `listviews_mutex` (lists on the screen), `script_mutex` (status and Lua).
The status `current_ss` is written by every one of the first four
threads, often outside `connect_mutex`; the lists on the screen are written by the
GUI loop, `search_thread` and `finder_thread`, and read by `critical_thread`. These
are the two places where the program is hard.

### Components

* **Playback control** (application.cpp, functions.cpp). State: `current_ss`,
  `playing`, `playback_type`, `current_info`, `buffering_start`. Operations: the
  `click_*` callbacks, `connect_to_stream`, `new_connection`, `network_playback`,
  `check_status`, `seek_playback`. Talks to every other component. Hard: the status
  is tested in one place and stored in another; results are stored after the mutex
  was released; a stop races a connection. Correct when: a stop leaves nothing
  playing, a connection is made with the device at rest, the status and the source
  of sound agree, requests are answered and exit ends.
* **Audio device** (audio/sound_sdl.cpp). State: the ring, its two lazily wrapped
  indices and their laps, two totals, `playing`, `done`. Operations: `sound_start`,
  `sound_stop`, `sound_pause`, `sound_seek`, the decoder, `MixAudio`. Hard: two
  mutexes taken in both orders, a join under a mutex, full and empty told by totals
  only, a seek that resets them without a mutex. Correct when the ring is a FIFO that
  never overruns, a seek does no lasting harm, and at most one decoder lives.
* **Local player** (local.cpp). State: file, `bytes_done`, `done`. Operations:
  `open`, `read`, `seek`, `close`. Hard: short and empty files, seek against the
  end of the file. Correct when the end of a file is reported once and leads to the
  next track.
* **ICY stream** (icy.cpp). State: header and redirect flags, the ring of received
  audio, the position of the metadata. Operations: `icy_reset`, `buffer_data`,
  `get_buffer`. Hard: data arrives in pieces of any size; the producer does not
  know where the reader is. Correct when the decoder receives the audio, in order
  and without metadata, and a dry stream is rebuffered or given up in time.
* **Network client** (client.cpp). State: sockets and `client_connected`. Operations:
  connect, send, receive, close. Hard: every step can fail, and not every failure
  clears `client_connected`.
* **Station browser** (browser.cpp, station_cache.cpp, genre_list.cpp). State: the
  list, `position`, `total`, `view_max`. Operations: a search fills the list,
  paging, `GetItem`. Hard: the list is refilled under `listviews_mutex` while the GUI
  pages and clicks without it, and `critical_thread` keeps a pointer into it. Correct
  when no half list is drawn, no list mixes two searches, and every search ends.
* **Favorites and playlists** (favorites.cpp, playlists.h, station.cpp). State: the
  list and the files it came from. Operations: save, delete, load, page, split a URL.
  Hard: a save can be interrupted, a file can hold several entries, two names can
  make one file. Correct when the list and the files agree.
* **Local file browser** (localfiles.cpp). State: the folder, its list, the position
  in each folder. Operations: list, sort, page, open, go up, change the device. Hard:
  `finder_thread` refills the list in place while the GUI pages, clicks and changes
  the path, and tracks are asked for by index. Correct when what is shown is the
  sorted listing of one folder, and an index that nobody checks stays in memory.
* **Skins, scripts, variables** (skins.cpp, script.cpp, variables.cpp). A parser for
  skins, the Lua mirror of the status, a store of named values.
* **Widgets, textures, fonts, visuals** (gui.cpp, textures.cpp, fonts.cpp,
  visuals.cpp, projectm.cpp). Drawing.
* **Options** (options.cpp). A file of names and values.
* **Decoder, tags, ripper** (audio/mp3.cpp, id3.cpp, ripper.cpp). Work on bytes.
* **Vendored code** (`src/3rdparty-libs`). Not ours to model.

`PROJECT.json` lists 40 hazards at the line where each bites, with the properties
that would catch it going wrong; where the code does go wrong and no text of it says
otherwise, or a property covers only a part, a note says so.

## 2. Modules

| module | what | code |
|---|---|---|
| `PlayerState` | constants and variables of the player, `sound_stop`, `sound_start` | sound_sdl.cpp:199-306, the classes' fields |
| `CriticalThread` | `critical_thread` with `new_connection` and `network_playback` | application.cpp:674-1101, icy.cpp, client.cpp |
| `AudioThreads` | decoder and `MixAudio` | sound_sdl.cpp:9-114, application.cpp:639-671, local.cpp, icy.cpp:486-537 |
| `GuiThread` | callbacks, `check_status`, the end of `wrMain` | functions.cpp, application.cpp:206-302, 1544-1585, 1950-1956, the direct-connect button included |
| `Playback` | the threads together, fairness, properties | |
| `SoundDevice` | what class `audio` promises: one decoder and one source from a `sound_start` to the end of the next `sound_stop` | sound_sdl.cpp:208-306 |
| `MCPlayback` | which buttons the skin has, for TLC | |
| `PlaybackProofs`, `TurnProofs` | theorems about `Playback`; it implements `SoundDevice` | |
| `AudioRing` | the ring sample by sample, and `sound_seek` store by store | sound_sdl.cpp:19-133, 199-306 |
| `SampleStream` | what the ring promises: a FIFO, and how far a seek may tear it | |
| `AudioRingProofs` | theorems about `AudioRing`, and that it implements `SampleStream` | |
| `NetBuffering` | a stream against the clock | application.cpp:674-940, icy.cpp |
| `NetBufferingProofs` | theorems about `NetBuffering` | |
| `IcyStream` | the stream byte by byte: metadata out, audio into the ring, chunks to the decoder | icy.cpp:77-100, 287-537 |
| `IcyStreamProofs` | theorems about `IcyStream` | |
| `Folder` | what the file browser promises: the whole folder, sorted | localfiles.cpp:28-39, 284-324 |
| `LocalFiles` | `finder_thread`, the list, the callbacks of the browser | localfiles.cpp, functions.cpp:120-128, 219-264, 361-379, 475-488 |
| `Tracks` | extends `LocalFiles` with what is played: next, prior, replay, end of a track | application.cpp:766-782, 1544-1582, functions.cpp:549-585 |
| `MCTracks` | a small file system for TLC | |
| `TracksProofs`, `FolderProofs` | theorems about `Tracks`; it implements `Folder` | |
| `ListViews` | what the lists share: view, rows, two mutexes, the request | application.cpp:1367-1380, 1816-1828, gui.cpp |
| `Search` | `search_thread`, the list of stations, paging, drawing, looking up | browser.cpp, application.cpp:590-608, 783-816, 953-1017, gui.cpp:295-485 |
| `Favorites` | the list of favorites and its files | favorites.cpp, functions.cpp:274-284, 496-547 |
| `Lists` | `Search` and `Favorites` together, `critical_thread` and a restart | application.cpp:834-870, 1763 |
| `MCLists` | services, names and files for TLC | |
| `ListsProofs` | theorems about `Lists` | |

### Playback

`pc[t]` says where thread t is; a label is a place where another thread can get in,
that is, a wait for a mutex or a gap between two accesses of shared state. What runs
under one mutex without such a gap is one step. `connect_mutex` and `audio_mutex`
hold their owner. `script_mutex` is a leaf, its holder waits for nothing, so its
block is one step. The data is reduced to what the status depends on: chunks of
sound decoded and not played (`stock`), chunks of a file not read (`unread`), the
kind of request (`info`), the flags of the stream. What the network and the file
system answer is a choice. `Controls` is the set of callbacks that the skin binds to
buttons: the user may do any of them whenever the GUI loop is idle.

Two stores are two steps where the code does not make them at once: `click_stop` stores
AS_NULL, waits for `script_mutex` and stores STOPPED (`Stopped`, `StoreStopped`), the cancel
buttons the other way round (`Cancel`, `CancelSource`); `check_status` stores
LOCALFILE_BUFFERING, which lets the decoder read, and then the source it reads
(`FileStarted`, `Announce`); a redirect is stored in three places (`PublishRedirect`,
`RedirectInfo`, `RedirectConnect`). The decoder reads the status (`DecoderRead`) before
it reads its input (`DecoderReads`), and a stream that ran dry is reset (`RunDry`) before
BUFFERING is stored (`Rebuffer`), over whatever was stored between. `FileSizes` are
the chunks a file may have; the runs have a shorter one than `min_buffers`, a longer one
and one that fits.

`overtaken` is a history. MixAudio tests for LOCALFILE_BUFFERING, waits for `script_mutex` and
stores PLAYING (`MixPromotes`, `MixPromote`). If the file had been read to its end by then and
a CONNECTING was stored meanwhile, `check_status` finds a file that plays and has
ended, and stops the device while `critical_thread` connects: then nothing is left of
`DialIsQuiet`, `DeviceAlone` and `ImplementsSound`, which therefore speak of the time until this
happens. It happens in the run, and without the exception TLC refutes all three.

`sound_start` is three steps, because it tests `playing` before it takes `audio_mutex`
and stores it after giving it back (`StartTest`, `StartLock`, `StartCreate`, which may get no thread), and
`sound_stop` three (`StopFlag`, `StopLock`, `StopJoin`). `MixAudio` waits for `audio_mutex`
in a place of its own, and `SDL_CloseAudio` for `MixAudio`.

`SoundDevice` says what all this is for: between a start and the end of the next stop there
is one decoder, it reads one source, and what waits to be played never exceeds
`min_buffers`. `Phase` maps the flag, the decoder and the places inside `sound_stop` to its
phases (a playing device without a decoder is mute), `Input` the source, `stock` what waits. A decoder that outlived its `sound_stop`
would count as stopping, so that a second one beside it is no step of `SoundDevice`.

Not every skin has every button, and one of them matters: play/pause stores a status
chosen earlier (functions.cpp:391-405), which can put PLAYING over a new request and
breaks `RebufferingIsShown` and `RedirectOnce` within four clicks. `playback_turns`
leaves it out; `playback_all` has every button. A directory search changes no variable
of `Playback`: it holds `connect_mutex` and delays the other threads, which here may
be delayed anyway; `Lists` has it.

### AudioRing

One sample is one cell. Samples carry their number instead of a value, so that
order, loss and repetition are visible. The decoder takes the mutex, decodes a piece
of up to `Chunk` samples if fewer than `MinBuffers` wait, stores it sample by sample
and adds it to the total; `MixAudio` takes samples until it has what SDL asked for
or runs dry. `SizeAssumption`, `MinBuffers + Chunk <= Size + 1`, is what keeps the decoder
from lapping the reader and is tight; the code has 200000 + 8192 against 220 * 8192. The test at the
wrap of `MixAudio` (sound_sdl.cpp:80) compares an unsigned index with the other in a
case that cannot arise and has no action.

`seek_playback` pauses SDL and calls `sound_seek`, which resets the two indices, their laps and
the two totals without `audio_mutex`. Each store is a step (`SoundSeek`), in any order, as
nothing orders plain stores for another thread; `pending` holds those to come. The decoder
may be in the middle of a piece, and the mixer in a callback that SDL began before the
pause: what the owner of the mutex writes may have been read before the reset and be stored
after it, so that its variables end as 0 or as they were (`ResetOf`). `torn` records that a
seek met an owner, or that one came into it (`Take`). It ends with the next reset or seek
that meets nobody. While torn the order is lost, and `SampleStream` says so (`Disturb`); what is
heard is still something that was decoded, or a cell cleared to 0, and the indices stay in
the ring. `Reset` never comes into a seek: a
seek is a step of the GUI thread that holds `connect_mutex`, and `critical_thread`, the only other
one that resets, holds it too (`MutexOwners` of `Playback`).

### NetBuffering

`network_playback`, `new_connection` and `get_buffer` run under `connect_mutex`; what they
decide is stored later, and these gaps are here as in `Playback`: `network_playback` receives
(`Receive`), reads the status again and decides (`Decide`), and the result is stored when
the mutex has long been free (`Publish`); `get_buffer` resets the stream (`RanDry`) and then
stores BUFFERING (`Rebuffer`). The GUI and MixAudio store a status whenever they like
(`StatusStored`: a request, a pause and its end, a promotion). The module adds the clock
(`app_timer`), the timeout, and one history: when the current wait for
sound began. So the properties are about what is decided: when a stored status is read again
it may be that of another connection.

### IcyStream

The server counts the bytes between its sections of metadata; `parse_metaint` must
count the same although it sees them in pieces. One round of its loop is one step;
`client_recv` gives pieces of any size. Audio bytes carry their number and metadata is
`Junk`, so a byte that is lost, repeated or out of place shows. The surplus byte that a
section leaves (`RemovesMetadata`) is what lay in the buffer behind the audio that was moved to its
front: metadata, or audio of this piece once more, which is stored as its number below zero
(`net_buffer`, `ToStore`). `InOrder` is about the others. The ring has
no guard against either side: `buffer_data` does not know the reader, and `get_buffer`
hands out all that is left before the end of the ring whoever wrote it. `broken`
records that this went wrong, until the next rebuffering; `unread` counts what is
stored and not handed out. `stale` marks a connection that begins with the
`metaint_size` of the one before, which `icy_reset` leaves. The properties speak of
the streams that are neither. A refused header or a redirect
has no step here (`NetBuffering` has it): `icy_reset` follows.

### LocalFiles, Tracks and Folder

A click stores a path and sets `parsing_dir`; `finder_thread` empties the list, reads
the folder entry by entry, in any order, and bubble-sorts in place, one comparison a
step. `list_mem` keeps its contents behind `total_num_files`, as the memory behind a
cleared vector does: an index that was in bounds when it was compared reads an old
entry or one of another folder, never nothing; `filled` says how far that memory goes.
`Goto("item", i)` and `Goto("page", p)` are the gaps between a callback's test and its
use, where `finder_thread` gets in. `dir` is the open directory: its folder may differ
from `current_path` once `reset_location` was clicked, and `stat` then asks for a file
that is not there. A device button stores the path before it asks whether the finder
is working (`ClickDevice`, `StartDevice`). `Tracks` adds the status as far as a local file goes;
`behind` is a history that marks the one request that is not looked at: the replay of
an item behind the last one, up to which the end of a track counts on.

`Folder` is the view of the user: a request shows a folder, and when it is complete
the listing holds every folder and track of it (up to the memory) once and in order;
a request made meanwhile is ignored, and only a device button may tear the listing.
The mapping is `Browser` in `LocalFiles`: while `parsing_dir` is set nothing is shown.

### Search, Favorites and Lists

A station is the genre it was searched for: that tells which search a row comes from.
`search` is where `search_thread` is; the labels lie at its mutexes and between the
list and its count. `listviews_mutex` is recursive, so it has an owner and a depth; a
thread that ends inside it hands it over or keeps it for ever, which differs between
systems (`Setups`). `rows` is what the last drawing left clickable. A download fails
or ends at any time. `gui.at` is where the GUI loop is: it draws (`frame`, `draw`),
waits for a search (`join`), pages (`page`), or saves (`truncate`, `write`, `load`).
`disk` maps a file to the names in it, in the order of the file; `readdir` has any
order. `Restart` is the power button at any moment: everything is lost but `disk`, and
an interrupted save has left an empty file. The next start loads the list again.
A request is looked up (`Resolve`), `connect_mutex` given back (`ResolveEnds`), and the result
stored (`StoreResult`) over whatever was asked for since, which is lost.

## 3. Runs

Passing runs:

| run | instance | shows |
|---|---|---|
| `playback_all` | every button, 3 clicks | types; mutexes held exactly between P and V; threads get stuck only in the one lock cycle, and none waits for a thread that is gone; a stop is quiet; LOCALFILE_BUFFERING never leads the decoder to a stream; the player is deleted last; a stopped stream stays silent; until `overtaken`, a connection is made at rest, one thread is at the device, a seek included, and the player implements `SoundDevice` |
| `playback_turns` | every button but play/pause, 4 clicks | a dry stream is not PLAYING once the decoder has said so; one redirect at a time |
| `playback_one_request` | every button, 1 click, fair | exit ends the program; a request is answered |
| `audio_ring` | 3 cells, pieces of 1-2, 5 samples, 2 seeks | indices stay in the ring; indices, totals and cells agree but for a disturbed seek and until the next reset or seek that meets nobody; the ring implements `SampleStream` |
| `icy_stream` | ring of 5, pieces of 0-3, a section after every 2 bytes, 16 bytes | `parse_metaint` is in step with the server; the audio reaches the ring complete and, until the ring is overrun, the decoder in order, with a stray byte for each section; rebuffering drops at most a chunk |
| `net_buffering` | timeout 3, 10 ticks | the device is started only behind the header and the pre-buffered sound of the open connection; no wait is prolonged beyond the timeout |
| `local_files` | 3 folders, one with an entry more than the memory and two equal names, 2 devices, 3 clicks, fair | a listing is complete and sorted whatever is clicked meanwhile; each step of the finder brings its end nearer, and it ends; unchecked indices stay in memory that was filled, but for a replay behind the last track; leaving the program ends |
| `lists` | 2 genres, both services, pages of 2, 2 names with one file, a file of 2 entries, 3 clicks or restarts, fair | no half list is seen; a list holds one search; the list stays while it is pointed into; favorites agree with the files; nobody waits in a circle; the window closes, a request that finds `critical_thread` idle is looked up unless another replaces it, and the GUI draws |

Runs that refute a statement of the source:

| run | what TLC finds |
|---|---|
| `lock_cycle_at_exit` | `sound_stop` holds `connect_mutex` and waits for `audio_mutex` or the decoder; the decoder holds `audio_mutex` and waits for `connect_mutex`. Exit, stop or seek hang. |
| `icy_metadata` | the length byte of a section that is not empty is taken out but stays counted: a stray byte follows the piece into the ring |
| `search_freeze` | an Icecast search takes `listviews_mutex` twice and gives it back once; where the system keeps it locked after the thread has ended, the GUI never draws again |
| `current_track` | next and prior at the ends of the list, and the end of the last track, change `playing_item` although the track stays |

`DrawsAgain` is in both tables: in `lists` the Icecast service runs on a system that
passes an abandoned mutex on, and everything waits at most for a search; in
`search_freeze` it runs on one that does not, where one search is enough.

Bounds. `MaxClicks` limits the user; the threads run on for ever. Every violation
above takes one or two clicks; three or four let two requests and a stop or an exit
interleave in `MCPlayback` (3.8 and 6.4 million states), in minutes.
`MinBuffers` = 2 is the least that gives a ring that is neither empty nor primed, and
of the files of 1, 2 and 3 chunks the first is never primed, the second ends with the priming and
the third outlasts it: `playback_one_request` has all, `playback_all` the last two,
`playback_turns`, where the streams matter, the second. `MaxRedirects`
= 2 would let the limit be passed if the count could grow; it cannot, because every
connection resets it. The audio ring of 3 cells is the
smallest its assumption allows for pieces of 2 and `MinBuffers` = 2; 5 samples
(`MaxDecoded`, over all resets) lead both indices into the second lap, and of two seeks one can
tear the stream and the other mend it, each against any place of the two loops. `MaxTime` = 10 is three timeouts and one tick.
The stream's ring of 5 is hardly larger than the piece and the priming of 2 (as
`SizeAssumption` wants it); 16 bytes are enough for the writer to lap the ring twice,
for the reader to pass the writer at the end and for four sections.
`MaxItems` = 4 leaves three slots, one less than the fullest folder has entries; `U32` = 8
is the wrap of `playing_item`, more than any list is long. Three clicks are a folder, a
track and a device, or a search, a page and a station; two genres are enough to mix.
`MaxStations` = 2 fills a page of `view_max` = 2, so that the empty page behind it is
reached. A frame that draws takes no click: drawing is not bounded.

`CHECK_DEADLOCK FALSE`: the program ends, `Playback` has the lock cycle
(`OnlyLockCycles` says of every set of threads that all wait for one another that it
holds that cycle, `NobodyWaitsInVain` that a thread with work to do that cannot go on waits
for a living thread: nothing else stops the program before its end), `AudioRing`, `NetBuffering`, `IcyStream` and `Tracks` stop at their bounds, a track that was never
filled ends the program, and in `search_freeze` the GUI is stuck.

Fairness (`FairSpec`). The threads are scheduled (WF of `CriticalStep`, `GuiStep`;
SF of the decoder's and the mixer's steps, which are guarded by
mutexes), and a thread that waits for a mutex gets it if it is free again and
again (SF of `CriticalWaits`, `GuiWaits`; `CriticalStream` is among them because the decoder
takes `connect_mutex` for each piece it reads): every loop sleeps outside of its
mutexes, so a waiter is not starved. The user is not fair: nobody has to click.
What the network answers is not fair either. In `Tracks`, WF of `Finder` and of the GUI
loop's second halves of a click, which never wait. In `Lists`, WF of the GUI loop and of
`critical_thread`, whose waits for a mutex end with the search; SF of `search_thread`: the
GUI takes `listviews_mutex` in every frame and sleeps between two frames, so that it
is free again and again.

## 4. Proofs

Constants are arbitrary, within the assumptions named in the modules.

* `PlaybackProofs`: `TypeOK`, `MutexOwners`, `StopIsQuiet`, `OnlyLockCycles` for every
  skin. `IInv` adds that the decoder holds `audio_mutex` only with room for a chunk, that
  `critical_thread` publishes a status and never -1, that a living decoder belongs to
  a playing device or to a `sound_stop` that will join it, and that nobody starts
  the device under the `connect_mutex` of `click_stop`. The last two make a stop
  quiet; they need `MutexOwners`. `OnlyLockCycles` follows from `MutexOwners`: whichever
  thread a set of waiting threads starts with, the owners of the mutexes lead to the
  decoder, which waits with `audio_mutex` in hand for the owner of `connect_mutex`.
* `TurnProofs`, for every skin. No mutex protects the device from `check_status`;
  what does is that it acts only behind certain values of the status, and that nobody
  changes the status meanwhile. The turn invariants say this for each of them: stopping,
  opening a file, closing, the stream, promoting, file buffering; each needs the others,
  together with `IInv` they are inductive (`TInv`). `AnnouncingTurn` says what holds between
  the status of a started file and its source. They give `FileBufferingIsLocal`,
  `ExitIsLast` and `StreamStaysStopped` without an exception. `FInv` adds going to the next track,
  connecting, the end of a file, and that a device which was reset stays drained
  until it is started: the decoder may still finish one chunk, and MixAudio plays
  nothing (`DrainedTurn`). These give `DialIsQuiet`, `DeviceAlone` (with the three steps of
  `sound_seek`) and the refinement
  `ImplementsSound`. Files have any size. What is inductive is `TInv /\ (overtaken \/ FInv)`: of the
  steps of the player only `MixPromote`, of a file that has ended and over another status than
  LOCALFILE_BUFFERING, breaks `FInv`, and it sets `overtaken` (`OnlyMixPromote`). `OvertakenByAFit`
  says when it comes to that: where no file has just `MinBuffers` chunks (`NoFileFits`), never, for
  a file that is promoted then has either more to read or too little to be promoted
  (`NextUnfinished`). In the refinement
  `StartCreate` maps to `Start`, `FileStarted` or `Announce`, whichever makes the file the source, to `Announce`, `StopFlag` to `Stop`, the join
  to `Joined`, the resets of the ring to `Discard`, the cancel button to
  `Cut`. `RebufferingIsShown` and `RedirectOnce` follow for skins without
  the play/pause button (`NoPauseButton`) from `StreamTurns`, inductive on top of
  `TInv`: MixAudio promotes no stream, a verdict PLAYING waits to be stored only while
  nothing buffers, a stream whose decoder is about to report that it ran dry has no such
  verdict, and a redirected stream has a status that leads to no other
  `network_playback` before `icy_reset`.
* `AudioRingProofs`: `TypeOK`, `RingInv`, and the refinement `Fifo`, for every size of ring,
  piece and mix, every number of seeks and every place where one falls. `RingInv` says
  that a ring that is not torn is either in step (`InStep`: the piece in progress fits,
  neither side laps the other, the lazily wrapped indices are as far apart as the totals say,
  and each unread cell holds the sample due when the reader comes to it) or in the
  middle of a seek that has met nobody (`HalfReset`: what it has come to is 0, and the mutex is
  free). It says nothing of a torn ring, where what is
  heard must still have been decoded and totals must not fall below zero. `IInv` adds
  `PieceInProgress` (a piece keeps to its length, torn or not) and `CellsDecoded` (no cell
  holds a number above what was decoded), and the refinement that the sample heard last was decoded
  (`SampleDecoded`). A seek that ends undisturbed leaves an empty ring,
  which is in step; `SeekKeeps` says what a store can leave of the others. `Decoded` maps to
  `Feed`, `MixSample` to `Hear`, `Reset` to `Reset`, a store of `SoundSeek` that has met nobody to `Seek`,
  a disturbed one, and every step of a torn ring, to `Disturb` or stuttering, the rest to stuttering.
* `NetBufferingProofs`: `StartsBehindHeader` and `NeverTooLate`. The invariant adds that
  the clock of a connected stream started no later than the wait it measures, and that a stream whose
  header is incomplete is still buffering; it says nothing of the status, which may be anything.
* `IcyStreamProofs`: `TypeOK`, `InStep`, `PieceIsAudio`, `InOrder` and `LittleIsLost`, for
  every size of ring, piece and section, and on the way to them `IndicesAgree`, which no run
  states by itself: `InOrder` fails with it. `DataOK` and `FlagsOK` are the types. `TakenInv`, for
  `PieceIsAudio`, adds what holds between pieces: all audio the server has sent is stored, so
  the byte that is kept next carries the next number. A section under way is never complete, `metaint_pos` is the
  server's count throughout, and before the header the ring is empty. For the ring the invariant
  bounds `unread` by the size while nothing is `broken`: a writer one lap ahead then has no room to wrap
  again, and a reader that wraps has read all of a lap. `InOrder` needs the contents of the
  ring: `AheadInv` says that the `unread` cells ahead of the reader, wherever the ring wraps,
  carry the bytes due next up to the last one stored, each once, in order, with strays anywhere
  between (`Carries`). A store appends what `TakenInv` says of the piece, a chunk handed out
  is a first part of it: the lemmas on `Carries` move, join and split such sequences, and
  `CarriesCount` shows that there are as many numbers as bytes of audio.
* `TracksProofs`: `TypeOK` and `InBounds` for every file system. `SortInv` bounds the
  indices of the sort. `InBounds` is inductive with the types: `filled` never shrinks,
  and the number of entries a track was opened in is at most `filled`. The advance at the end of a
  track is in it; only a request made by replay for an item behind that number (`behind`) is not. `ListingAdvances`, for
  every file system and size of memory: `Left`, the stage of the listing with what is left
  to read or to sort, gets smaller with every step of the finder and is left alone by all
  other steps. `Measured` says that its three parts are natural numbers, which needs that what
  is read from a folder is finite (`FiniteDir`); so a listing has finitely many steps, and
  `ListingEnds` lacks only the fairness of the finder, which is TLC's.
* `FolderProofs`: `RefinesFolder`, that is, `finder_thread` and the callbacks implement
  `Folder` for every file system, order of `readdir` and size of memory. `LInv` has six
  parts: `BusyInv` (the finder works only while `parsing_dir`), `EntriesInv` (what
  an untorn listing holds is of this folder, each entry once), `ReadInv` (read and unread
  make up the folder), `WholeInv` (how many there are when the reading is over, by
  cardinality), `BubbleInv` (behind `n` everything is in place, and the largest of the first
  `j` is at `j`), `SortedInv` (the list is sorted when the finder says so: a pass without a
  swap, or no pass left). `FinderDone` maps to `Complete`, the requests to `Request`, a
  device button during a listing to `Tear`, the rest to stuttering.
* `ListsProofs`: `ListWhole`, `OneSearch`, `ResolveStable` for all genres, services and
  numbers of stations. `ConnectInv` says that `search_thread` and `critical_thread` own `connect_mutex`
  exactly between their P and V, `ListviewsInv` the same for `listviews_mutex`, its
  depth and who may have abandoned it, `StationsInv` relates list and count where they differ.
  `FavoritesOnDisk`, for all names, files and orders of `readdir`: outside a save the list
  holds every entry of every file once, and beside them at most what is left of a file that came
  with several entries and was removed with one of them. `DiskInv` says what can be on the disk (the
  files it came with, or what the program wrote, which is one entry at most), `FavInv` what is
  listed. The list is built by a recursive function over the files; instead of an induction
  `Least` takes the first file whose entries would be wrong, since the order of the numbers
  is well-founded, and `HoldsNext` shows that it is not. `Removing` and `Deleting` count the
  entries left when one goes and its file with it. `TypeOK` adds the view and the threads.
  `WaitsEnd` is the absence of deadlock without an ENABLED: no set of threads waits in a circle,
  over the two mutexes and the join. The argument is an order: `critical_thread` waits only
  for `connect_mutex` and has nothing in hand; `search_thread` waits with `connect_mutex` in hand for
  `listviews_mutex`, whose owner, the GUI in a frame, waits for nobody; the GUI
  waits for `search_thread` only outside of a frame, with no mutex in hand. `DepthInv` says how
  often each owner has taken `listviews_mutex` at each place, so that who leaves it behind is known.

Only model-checked: liveness (`ExitCompletes`, `RequestAnswered`, `ListingEnds`,
`LeaveEnds`, `DrawsAgain`, `WindowCloses`, `RequestsAnswered`), which the prover
does not do under fairness (what `ListingEnds` and the waits of `Lists` rest on is proved, see
above), and `NobodyWaitsInVain`, which has an ENABLED. Every other property of a passing
run is a theorem.

## 5. Not modelled

* The start-up request of `data/current.pls`: the program never writes that file (the
  call is commented out, application.cpp:880).
* A statement about a local file with fewer chunks than `min_buffers`: it is never primed and stays
  LOCALFILE_BUFFERING. The runs have one and the theorems hold of it, no text speaks of it.
* A statement about what happens after `overtaken`: the models go on, and most properties hold on.
* The limit of 20 redirects is never reached, a stream that runs dry later than 30 seconds
  after its connection is given up at once, an underrun ends the decoder of a stream
  that stays PLAYING, and a result can be stored over the status of a stop: the models
  do all this and the hazards name it, but no run refutes a statement about it.
* Torn reads: an entry of a list is read, swapped and copied as a whole, also where the
  code does it without a mutex (a deletion while `new_connection` copies a favorite).
* A folder that cannot be opened, and opening an entry of a torn listing that names none.
* Which of several clicks' rows a request meant: the position is added when it is looked
  up, and the models do that; no text of the source says what it should be.
* A reload of the skin, which deletes the `gui` that `search_thread` may still use.
* Searches for stations (`SEARCH_STATIONS`) and `SEARCH_CONNECT`: nothing requests them.
* The genre list's paging (the same code as the browser's) and `genres.dat`; the station
  cache, which nothing reads; options, the ripper, tags.
* KEY_PLUS saves a favorite in every frame while it is held; here a click saves once.
* Screens, timers, volume.
* The window at start-up before `critical_thread` sets `critical_running`.
* A lock of SDL around its callback. `sound_pause` and `sound_stop` call `SDL_PauseAudio` with
  `audio_mutex` held, and `MixAudio`, which SDL calls, waits for `audio_mutex`: if SDL guards both
  with one lock, they can wait for each other, and `OnlyLockCycles` does not know of it. SDL is
  not in the repository; here `SDL_PauseAudio` returns.
* A refused header, as one without icy-metaint is (icy.cpp:206-221): `buffer_data` sets FAILED (icy.cpp:397-404) and `network_playback`
  returns BUFFERING over it. `CriticalThread` has both steps, no property speaks of it.
* Parsing of skins, tags, playlists and XML; drawing; sockets.
* `src/3rdparty-libs`: libmad, Lua and projectM are nine tenths of the lines
  of the repository, and none of them is this program. What it uses of them and of SDL (mutexes,
  threads, the audio callback, a decoded piece) is modelled as the program sees it.

## 6. Plan

What remains, in this order:

1. `gui` as a variable of `Lists`: a reload of the skin against `search_thread`.
2. `Options` and playlists as text: round trips.
3. The screens, the variables and the texture cache, as far as they have state.
