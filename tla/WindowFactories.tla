-------------------------- MODULE WindowFactories ---------------------------
(***************************************************************************)
(* The factories of the operators over a window in the JavaScript package  *)
(* (generated/ops.ts): rolling, exponentially weighted and expanding ones. *)
(* See Factories.                                                          *)
(***************************************************************************)
EXTENDS SettingKinds

EwAlpha == Takes(<<Maybe("com"), Maybe("span"), Maybe("halflife"), Maybe("alpha")>>)
EwBeta == Takes(<<Maybe("com"), Maybe("span"), Maybe("halflife"), Maybe("alpha")>>)
EwCorr == Takes(<<Maybe("com"), Maybe("span"), Maybe("halflife"), Maybe("alpha")>>)
EwCov == Takes(<<Maybe("com"), Maybe("span"), Maybe("halflife"), Maybe("alpha")>>)
EwGarmanKlassVar == Takes(<<Maybe("com"), Maybe("span"), Maybe("halflife"), Maybe("alpha")>>)
EwGarmanKlassVol == Takes(<<Maybe("com"), Maybe("span"), Maybe("halflife"), Maybe("alpha")>>)
EwKurt == Takes(<<Maybe("com"), Maybe("span"), Maybe("halflife"), Maybe("alpha")>>)
EwKyleLambda == Takes(<<Maybe("com"), Maybe("span"), Maybe("halflife"), Maybe("alpha")>>)
EwMean == Takes(<<Maybe("com"), Maybe("span"), Maybe("halflife"), Maybe("alpha")>>)
EwMultiRegression ==
  Takes(<<Needed(Int("nRegressors", "none")), Bool("intercept", "true"), Maybe("com"),
    Maybe("span"), Maybe("halflife"), Maybe("alpha")>>)
EwParkinsonVar == Takes(<<Maybe("com"), Maybe("span"), Maybe("halflife"), Maybe("alpha")>>)
EwParkinsonVol == Takes(<<Maybe("com"), Maybe("span"), Maybe("halflife"), Maybe("alpha")>>)
EwResidualStd == Takes(<<Maybe("com"), Maybe("span"), Maybe("halflife"), Maybe("alpha")>>)
EwRms == Takes(<<Maybe("com"), Maybe("span"), Maybe("halflife"), Maybe("alpha")>>)
EwRogersSatchellVar == Takes(<<Maybe("com"), Maybe("span"), Maybe("halflife"), Maybe("alpha")>>)
EwRogersSatchellVol == Takes(<<Maybe("com"), Maybe("span"), Maybe("halflife"), Maybe("alpha")>>)
EwSkew == Takes(<<Maybe("com"), Maybe("span"), Maybe("halflife"), Maybe("alpha")>>)
EwSpread == Takes(<<Maybe("com"), Maybe("span"), Maybe("halflife"), Maybe("alpha")>>)
EwStd == Takes(<<Maybe("com"), Maybe("span"), Maybe("halflife"), Maybe("alpha")>>)
EwVar == Takes(<<Maybe("com"), Maybe("span"), Maybe("halflife"), Maybe("alpha")>>)
EwYangZhangVar == Takes(<<Maybe("com"), Maybe("span"), Maybe("halflife"), Maybe("alpha")>>)
EwYangZhangVol == Takes(<<Maybe("com"), Maybe("span"), Maybe("halflife"), Maybe("alpha")>>)
EwZscore == Takes(<<Maybe("com"), Maybe("span"), Maybe("halflife"), Maybe("alpha")>>)
ExpandingKurt == Takes(<<>>)
ExpandingMax == Takes(<<>>)
ExpandingMean == Takes(<<>>)
ExpandingMin == Takes(<<>>)
ExpandingMultiRegression == Takes(<<Needed(Int("nRegressors", "none")), Bool("intercept", "true")>>)
ExpandingProd == Takes(<<>>)
ExpandingSkew == Takes(<<>>)
ExpandingSlope == Takes(<<>>)
ExpandingStd == Takes(<<>>)
ExpandingSum == Takes(<<>>)
ExpandingVar == Takes(<<>>)
RollingADF == Takes(<<Int("windowSize", "100"), Int("lags", "1")>>)
RollingAlpha == Takes(<<Int("windowSize", "20"), Text("startPolicy", "strict")>>)
RollingArgmax == Takes(<<Int("windowSize", "20")>>)
RollingArgmin == Takes(<<Int("windowSize", "20")>>)
RollingBeta == Takes(<<Int("windowSize", "20"), Text("startPolicy", "strict")>>)
RollingBipowerVar == Takes(<<Int("windowSize", "20"), Text("startPolicy", "strict")>>)
RollingCVaR == Takes(<<Int("windowSize", "20"), Number("alpha", "0.05")>>)
RollingCalmar == Takes(<<Int("windowSize", "252"), Number("periodsPerYear", "1.0")>>)
RollingCorr == Takes(<<Int("windowSize", "20"), Text("startPolicy", "strict")>>)
RollingCov == Takes(<<Int("windowSize", "20"), Text("startPolicy", "strict")>>)
RollingDownsideDeviation ==
  Takes(<<Int("windowSize", "20"), Number("mar", "0.0"), Text("startPolicy", "strict")>>)
RollingGarmanKlassVar == Takes(<<Int("windowSize", "20")>>)
RollingGarmanKlassVol == Takes(<<Int("windowSize", "20")>>)
RollingHMM ==
  Takes(<<Int("windowSize", "720"), Int("refitEvery", "24"), Text("emission", "gaussian"),
    Int("maxIter", "50"), Number("tol", "1e-06")>>)
RollingHitRate == Takes(<<Int("windowSize", "252")>>)
RollingHurst == Takes(<<Int("windowSize", "256"), Int("minScale", "4"), Text("method", "rs")>>)
RollingInfoRatio == Takes(<<Int("windowSize", "252"), Number("periodsPerYear", "1.0")>>)
RollingIqr == Takes(<<Int("windowSize", "20")>>)
RollingJumpShare == Takes(<<Int("windowSize", "20"), Text("startPolicy", "strict")>>)
RollingKurt == Takes(<<Int("windowSize", "20"), Text("startPolicy", "strict")>>)
RollingKyleLambda == Takes(<<Int("windowSize", "20"), Text("startPolicy", "strict")>>)
RollingLinearRegression == Takes(<<Int("windowSize", "20"), Text("startPolicy", "strict")>>)
RollingMad == Takes(<<Int("windowSize", "20"), Text("startPolicy", "strict")>>)
RollingMax == Takes(<<Int("windowSize", "20")>>)
RollingMaxDrawdown == Takes(<<Int("windowSize", "252")>>)
RollingMean == Takes(<<Int("windowSize", "20"), Text("startPolicy", "strict")>>)
RollingMedian == Takes(<<Int("windowSize", "20")>>)
RollingMedianAD == Takes(<<Int("windowSize", "20"), Text("startPolicy", "strict")>>)
RollingMin == Takes(<<Int("windowSize", "20")>>)
RollingMinMax == Takes(<<Int("windowSize", "20")>>)
RollingMultiRegression ==
  Takes(<<Needed(Int("windowSize", "none")), Needed(Int("nRegressors", "none")),
    Bool("intercept", "true")>>)
RollingOU == Takes(<<Int("windowSize", "20"), Text("output", "mrr"), Text("startPolicy", "strict")>>)
RollingOmega == Takes(<<Int("windowSize", "20"), Number("threshold", "0.0")>>)
RollingOrderImbalance == Takes(<<Int("windowSize", "20"), Text("startPolicy", "strict")>>)
RollingParkinsonVar == Takes(<<Int("windowSize", "20")>>)
RollingParkinsonVol == Takes(<<Int("windowSize", "20")>>)
RollingPercentile == Takes(<<Int("windowSize", "20")>>)
RollingPermutationEntropy ==
  Takes(<<Int("windowSize", "100"), Int("order", "3"), Int("delay", "1"),
    Text("startPolicy", "strict")>>)
RollingPoly1 == Takes(<<Int("windowSize", "20"), Int("derivativeOrder", "0"), Text("startPolicy", "strict")>>)
RollingPoly2 == Takes(<<Int("windowSize", "20"), Int("derivativeOrder", "0"), Text("startPolicy", "strict")>>)
RollingQuantile == Takes(<<Int("windowSize", "20"), Number("quantile", "0.5")>>)
RollingRSI == Takes(<<Int("windowSize", "14"), Text("method", "wilder"), Text("startPolicy", "strict")>>)
RollingRange == Takes(<<Int("windowSize", "20")>>)
RollingRank == Takes(<<Int("windowSize", "20")>>)
RollingRealizedKurt == Takes(<<Int("windowSize", "20"), Text("startPolicy", "strict")>>)
RollingRealizedSkew == Takes(<<Int("windowSize", "20"), Text("startPolicy", "strict")>>)
RollingResidualStd == Takes(<<Int("windowSize", "20"), Text("startPolicy", "strict")>>)
RollingRms == Takes(<<Int("windowSize", "20"), Text("startPolicy", "strict")>>)
RollingRogersSatchellVar == Takes(<<Int("windowSize", "20")>>)
RollingRogersSatchellVol == Takes(<<Int("windowSize", "20")>>)
RollingSeasonalMean == Takes(<<Int("period", "24"), Int("windowSize", "20"), Text("startPolicy", "strict")>>)
RollingSeasonalStd == Takes(<<Int("period", "24"), Int("windowSize", "20"), Text("startPolicy", "strict")>>)
RollingSeasonalZscore ==
  Takes(<<Int("period", "24"), Int("windowSize", "20"), Text("startPolicy", "strict")>>)
RollingSharpe == Takes(<<Int("windowSize", "252"), Number("periodsPerYear", "1.0")>>)
RollingSigmaClip ==
  Takes(<<Int("windowSize", "20"), Maybe("lower"), Maybe("upper"), Text("output", "clipped"),
    Text("startPolicy", "strict")>>)
RollingSkew == Takes(<<Int("windowSize", "20"), Text("startPolicy", "strict")>>)
RollingSortino ==
  Takes(<<Int("windowSize", "252"), Number("periodsPerYear", "1.0"), Number("target", "0.0")>>)
RollingSpread == Takes(<<Int("windowSize", "20"), Text("startPolicy", "strict")>>)
RollingStd == Takes(<<Int("windowSize", "20"), Text("startPolicy", "strict")>>)
RollingSum == Takes(<<Int("windowSize", "20"), Text("startPolicy", "strict")>>)
RollingTLSBeta == Takes(<<Int("windowSize", "20"), Text("startPolicy", "strict")>>)
RollingTSF == Takes(<<Int("windowSize", "20")>>)
RollingUpsideDeviation ==
  Takes(<<Int("windowSize", "20"), Number("mar", "0.0"), Text("startPolicy", "strict")>>)
RollingVWAP == Takes(<<Int("windowSize", "20")>>)
RollingVar == Takes(<<Int("windowSize", "20"), Text("startPolicy", "strict")>>)
RollingVarianceRatio ==
  Takes(<<Int("windowSize", "256"), Int("lag", "2"), Text("output", "ratio"),
    Text("startPolicy", "strict")>>)
RollingYangZhangVar == Takes(<<Int("windowSize", "20")>>)
RollingYangZhangVol == Takes(<<Int("windowSize", "20")>>)
RollingZscore == Takes(<<Int("windowSize", "20"), Text("startPolicy", "strict")>>)
=============================================================================
