---------------------------- MODULE SeedRegions -----------------------------
(***************************************************************************)
(* The five region profiles the system ships with (seed/regions.py), as    *)
(* RegionScoring reads them: hours of a transfer in tenths, scores in      *)
(* hundredths, a score of the season for each month. A traveller has been  *)
(* to a region when a name of it, or of one of its prefectures, is among   *)
(* the visited places.                                                     *)
(***************************************************************************)
EXTENDS Naturals, Sequences

Tohoku ==
  [code |-> "tohoku", hub |-> "sendai", carFree |-> TRUE, carRecommended |-> FALSE,
   gateways |-> [Tokyo |-> 16, Osaka |-> 46, Sapporo |-> 42, Nagoya |-> 35],
   minNights |-> 3, idealNights |-> 5, maxNights |-> 10, transport |-> 68,
   strengths |-> [food |-> 92, onsen |-> 95, nature |-> 88, culture |-> 80, hiking |-> 78, city |-> 55,
                 coast |-> 70, snow |-> 90, art |-> 45, nightlife |-> 40],
   season |-> <<72, 72, 55, 78, 90, 75, 80, 86, 82, 94, 80, 68>>,
   booking |-> 55, luggage |-> 60, stepFree |-> 55,
   names |-> {"tohoku", "miyagi", "yamagata", "aomori", "akita", "iwate", "fukushima"},
   similar |-> {"nikko", "hakone", "kanazawa"}]

NaganoAlps ==
  [code |-> "nagano_alps", hub |-> "matsumoto", carFree |-> TRUE, carRecommended |-> FALSE,
   gateways |-> [Tokyo |-> 15, Osaka |-> 33, Nagoya |-> 21, Sapporo |-> 60],
   minNights |-> 2, idealNights |-> 4, maxNights |-> 8, transport |-> 72,
   strengths |-> [food |-> 72, onsen |-> 85, nature |-> 95, culture |-> 78, hiking |-> 97, city |-> 45,
                 coast |-> 5, snow |-> 95, art |-> 50, nightlife |-> 35],
   season |-> <<85, 88, 72, 68, 88, 70, 90, 92, 85, 92, 72, 80>>,
   booking |-> 45, luggage |-> 55, stepFree |-> 45,
   names |-> {"nagano & the japan alps", "nagano", "gifu (hida)", "toyama (tateyama)"},
   similar |-> {"hakone", "nikko", "takayama"}]

Hokuriku ==
  [code |-> "hokuriku", hub |-> "kanazawa", carFree |-> TRUE, carRecommended |-> FALSE,
   gateways |-> [Tokyo |-> 26, Osaka |-> 26, Nagoya |-> 25, Sapporo |-> 55],
   minNights |-> 2, idealNights |-> 4, maxNights |-> 7, transport |-> 74,
   strengths |-> [food |-> 95, onsen |-> 75, nature |-> 72, culture |-> 90, hiking |-> 55, city |-> 70,
                 coast |-> 88, snow |-> 70, art |-> 82, nightlife |-> 45],
   season |-> <<72, 70, 68, 85, 90, 72, 78, 78, 80, 90, 88, 78>>,
   booking |-> 40, luggage |-> 78, stepFree |-> 72,
   names |-> {"hokuriku", "ishikawa", "toyama", "fukui"},
   similar |-> {"kyoto", "kanazawa", "takayama"}]

Shikoku ==
  [code |-> "shikoku_setouchi", hub |-> "takamatsu", carFree |-> TRUE, carRecommended |-> TRUE,
   gateways |-> [Osaka |-> 20, Tokyo |-> 44, Fukuoka |-> 34, Nagoya |-> 32],
   minNights |-> 3, idealNights |-> 5, maxNights |-> 9, transport |-> 52,
   strengths |-> [food |-> 82, onsen |-> 85, nature |-> 80, culture |-> 78, hiking |-> 62, city |-> 40,
                 coast |-> 95, snow |-> 10, art |-> 96, nightlife |-> 30],
   season |-> <<60, 62, 78, 90, 92, 65, 78, 72, 82, 92, 90, 65>>,
   booking |-> 62, luggage |-> 48, stepFree |-> 50,
   names |-> {"shikoku & the seto inland sea", "kagawa", "ehime", "tokushima", "kochi", "okayama (setouchi)"},
   similar |-> {"osaka", "hiroshima", "kyoto"}]

Kyushu ==
  [code |-> "kyushu", hub |-> "fukuoka", carFree |-> TRUE, carRecommended |-> TRUE,
   gateways |-> [Fukuoka |-> 3, Osaka |-> 26, Tokyo |-> 51, Sapporo |-> 45],
   minNights |-> 4, idealNights |-> 6, maxNights |-> 12, transport |-> 62,
   strengths |-> [food |-> 94, onsen |-> 97, nature |-> 88, culture |-> 75, hiking |-> 72, city |-> 72,
                 coast |-> 80, snow |-> 15, art |-> 45, nightlife |-> 78],
   season |-> <<72, 72, 85, 90, 88, 55, 62, 60, 70, 90, 92, 75>>,
   booking |-> 50, luggage |-> 70, stepFree |-> 65,
   names |-> {"kyushu", "fukuoka", "oita", "kumamoto", "kagoshima", "nagasaki", "miyazaki"},
   similar |-> {"osaka", "hiroshima"}]

\* The regions table, in the order of the codes
SeedRegions == <<Hokuriku, Kyushu, NaganoAlps, Shikoku, Tohoku>>
=============================================================================
