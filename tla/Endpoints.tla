----------------------------- MODULE Endpoints -----------------------------
(***************************************************************************)
(* The endpoints of the web client (webapi/client.rs): which of the three  *)
(* loads each uses, and the bucket of the cache that its answers go to.    *)
(***************************************************************************)
\* f and g together; where both say something, f does. (The provers do not know @@.)
Joined(f, g) == [x \in DOMAIN f \cup DOMAIN g |-> IF x \in DOMAIN f THEN f[x] ELSE g[x]]

Plain(bucket) == [by |-> "plain", bucket |-> bucket]
Rspotify(bucket) == [by |-> "rspotify", bucket |-> bucket]

UserEndpoints ==
  [get_user_profile |-> Rspotify("user-profile"),
   get_user_top_tracks |-> Rspotify("user-top-tracks"),
   get_user_top_artist |-> Rspotify("user-top-artists")]
ArtistEndpoints ==
  [get_artist |-> Rspotify("artist"), get_artist_albums |-> Rspotify("artist-albums"),
   get_artist_top_tracks |-> Rspotify("artist-top-tracks")]
ArtistInfo == [get_artist_info |-> Plain("artist-info")]
AlbumEndpoints == [get_album |-> Plain("album"), get_show |-> Plain("show")]
EpisodeEndpoints ==
  [get_episodes |-> Plain("episodes"), get_episode |-> Plain("episode"),
   get_show_episodes |-> Plain("show-episodes")]
TrackEndpoints ==
  [get_track |-> Plain("track"), get_track_credits |-> Plain("track-credits"),
   get_lyrics |-> Plain("lyrics")]
LibraryEndpoints ==
  [get_saved_albums |-> Plain("saved-albums"), get_saved_tracks |-> Plain("saved-tracks"),
   get_saved_shows |-> Plain("saved-shows")]
ViewEndpoints == [get_user_info |-> Plain("user-info"), get_section |-> Plain("home-section")]
PlaylistEndpoints ==
  [get_playlists |-> Rspotify("playlists"), get_playlist |-> Rspotify("playlist"),
   get_playlist_tracks |-> Rspotify("playlist-tracks")]
SearchEndpoint == [search |-> Rspotify("search")]
RecommendationEndpoint == [get_recommendations |-> Plain("recommendations")]
ImageEndpoint == [get_image |-> [by |-> "image", bucket |-> "images"]]

Table ==
  Joined(Joined(UserEndpoints, ArtistEndpoints),
  Joined(Joined(ArtistInfo, AlbumEndpoints),
  Joined(Joined(EpisodeEndpoints, TrackEndpoints),
  Joined(Joined(LibraryEndpoints, ViewEndpoints),
  Joined(Joined(PlaylistEndpoints, SearchEndpoint),
  Joined(RecommendationEndpoint, ImageEndpoint))))))
=============================================================================
