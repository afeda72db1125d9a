--------------------------- MODULE MCLicenseClient ---------------------------
(* Small instances of LicenseClient.  One tick stands for the skew and the
   refresh debounce (300 s), two for the rollback tolerance (1 h), three for
   staleness (6 h) and four for a day: the order of the code's constants.
   Where the clock is not set back, staleness is two and a day three. *)
EXTENDS LicenseClient

\* One lease of each kind.
EachOffer == [status : {"active", "fallback", "expired"}, lasts : {2}]

\* A lease shorter and one longer than the offline bound.
ActiveOffers == [status : {"active"}, lasts : {1, 5}]

\* One lease, for the runs whose question is not the lease.
OneOffer == [status : {"active"}, lasts : {2}]

NoSettings == {}

\* The dashboard takes the trial away and opens the free tier.
OneSetting == {[days |-> 0, free |-> TRUE]}

----------------------------------------------------------------------------
(* The codecs are functions, and no step changes what they do: they are
   evaluated once, on the first tick of the clock. *)
Samples == INSTANCE CodecSamples

AtFirst == Init /\ Tick

\* The blob that save_cache_() writes is what the next process reads, whichever
\* fields are set, and under it what the writers write is what the parser reads:
\* strings, numbers at the limits of their width, escapes, base64; a text cut
\* short or with more after it is no text.
BlobsRead == [][AtFirst => Samples!BlobsRead /\ Samples!TextsRead]_vars

\* A lease verifies exactly with the published key of its kid over its own fields,
\* its entitlements in any order; settings that must be signed count exactly if
\* their signature is for this product and the clock is in their window.  Under
\* it ed25519_verify() accepts exactly the signer's scalar modulo the order, below
\* its bound, for every secret, nonce and message; the hash is the padded message's
\* wherever it is cut, and the limbs are the field they stand for.
LeasesVerify == [][AtFirst => Samples!LeasesVerify /\ Samples!SignaturesVerify]_vars

\* What the requests and the lifecycle tell others adds up: the server sees one
\* device through failing reads, relaunches and the purchase, its names and versions
\* well-formed; whoever follows the lifecycle alone knows of every expiry and renewal.
ReportsAddUp == [][AtFirst => Samples!DevicesAreKnown /\ Samples!CustomersAreTold]_vars
=============================================================================
