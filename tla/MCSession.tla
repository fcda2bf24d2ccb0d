----------------------------- MODULE MCSession -----------------------------
(* Values for Session: clocks that tick ten times a second, and words wide *)
(* enough to tell what fits from what wraps.                               *)
EXTENDS SessionInv

Opts(readahead, write, background) ==
  [MaxReadahead |-> readahead, MaxWrite |-> write,
   MaxBackground |-> background]

MCOptions ==
  { Opts(0, 0, 0), Opts(4096, 1, 1), Opts(4096, 1048576, 21845),
    Opts(0, 4096, 21846), Opts(4096, 0, 65535), Opts(4096, 65536, 7) }

Offer(major, minor, readahead, flags) ==
  [Major |-> major, Minor |-> minor, MaxReadahead |-> readahead,
   Flags |-> flags]

MCOffers ==
  { Offer(7, 25, 131072, Caps), Offer(7, 26, 0, {}),
    Offer(7, 41, 131072, {"CapAsyncRead", "CapWritebackCache"}),
    Offer(7, 42, 8192, Caps), Offer(8, 26, 131072, Caps) }

MCDurations == {-11, -1, 0, 1, 9, 10, 25}

MCErrors ==
  { <<Errno(2)>>, <<Errno(0)>>, <<Errno(600)>>, <<Plain("other")>>,
    <<Plain("EOF")>>, <<Plain("ErrNotExist"), Errno(13)>>,
    <<Plain("other"), Plain("ErrClosed")>>,
    <<Plain("EOF"), Plain("ErrPermission")>>,
    <<Plain("EOF"), Errno(5), Errno(0)>>, <<Plain("Canceled")>>,
    <<Plain("DeadlineExceeded")>> }

=============================================================================
