----------------------------- MODULE MCSignals ------------------------------
(***************************************************************************)
(* Small values for Signals: bars on both sides of every threshold of the  *)
(* configs, one without a close, some after a weekend; windows of one to   *)
(* three rows.  The companions have days of their own; one is listed late. *)
(* Their closes are primes, so that no two returns are equal.              *)
(***************************************************************************)
EXTENDS Signals

Shape(gap, open, high, low, close, volume, rsi, squeeze) ==
    [gap |-> gap, open |-> open, high |-> high, low |-> low, close |-> close,
     volume |-> volume, rsi |-> rsi, squeeze |-> squeeze, diverges |-> rsi \in 20..60]

MCShapes ==
    {Shape(1, 20, 24, 20, 24, 6, 80, FALSE),    \* up, on volume
     Shape(1, 20, 20, 16, 16, 3, 10, FALSE),    \* down
     Shape(3, 17, 18, 14, 15, 3, 5, TRUE),      \* down after a weekend
     Shape(1, 18, 23, 18, 22, 4, 40, FALSE),    \* a gap that is filled
     Shape(1, 20, 21, 19, None, 2, 50, TRUE)}   \* no close

MCFirsts == {Shape(3, 17, 18, 14, 15, 3, 5, TRUE)}
MCInPanel == {b \in MCShapes : b.close \notin {16, 22}}

Daily(day, open, close, volume, rsi) ==
    DailyBar(day, Shape(1, open, Max({open, close}), Min({open, IF close = None THEN open ELSE close}),
                   close, volume, rsi, FALSE))

MCCompanions ==
    <<<<Daily(1, 30, 29, 2, 20), Daily(2, 29, 41, 2, 70), Daily(3, 36, 37, 3, 40),
        Daily(4, 34, 31, 1, 20), Daily(5, 33, 43, 2, 60), Daily(6, 40, None, 2, 30),
        Daily(8, 28, 29, 0, 20), Daily(9, 29, 71, 3, 80)>>,
      <<Daily(3, 50, 53, 2, 50), Daily(4, 53, 47, 2, 30), Daily(5, 44, 59, 3, 80),
        Daily(6, 59, 61, 2, 90), Daily(7, 60, 53, 2, 20), Daily(9, 40, 47, 2, 10)>>>>

\* Bars wide enough for every open: one that rises and one that falls.
MCOthers == {Shape(1, 20, 27, 13, 26, 5, 85, FALSE), Shape(1, 20, 27, 13, 14, 2, 5, FALSE)}

Reported(epoch, sound, pe, growth) ==
    [epoch |-> epoch, sound |-> sound, pe |-> pe, growth |-> growth]

MCScan == [price_threshold |-> 14, period |-> 2, threshold |-> 30, n_day |-> 0,
           gain |-> 0, min_real_history_days |-> 0]

MCEC == [buy_on_down_day |-> TRUE, min_rsi_14 |-> 30, rsi_period |-> 1,
         min_gap_down_pct |-> 5, max_gap_down_pct |-> 40,
         ibs_entry_threshold |-> 60, sma_trend_period |-> 2,
         bb_period |-> 3, bb_std |-> 4, rsi_entry_threshold |-> 60,
         high_window |-> 2, range_window |-> 3, ibs_threshold |-> 60,
         atr_short |-> 1, atr_long |-> 2, vei_max |-> 150,
         mom_period |-> 1, box_min_days |-> 2, vol_window |-> 3,
         volume_breakout_mult |-> 1, lookback_period |-> 2,
         sma_short |-> 1, sma_long |-> 2, rsi_threshold |-> 60,
         lookback_days |-> 1, regime_sma_period |-> 2, green_candles |-> 1,
         extended_ibs |-> [sma_trend_period |-> 0],
         index_dip_buy |-> [sma_short |-> 2, sma_long |-> 3],
         swing_master |-> [sma_short |-> 3, sma_long |-> 4, pullback_days |-> 1],
         sector |-> <<1, 2, 1>>,
         momentum_dip |-> [rsi_threshold |-> 60, rsi_period |-> 1, top_n |-> 2,
             momentum_lookback_days |-> 1, rerank_interval_days |-> 2],
         momentum_rebalance |-> [momentum_lookback_days |-> 1, rebalance_interval_days |-> 2,
             num_positions |-> 1, regime_instrument |-> 0, regime_sma_period |-> 0,
             moc_signal_lag_days |-> 0],
         momentum_cascade |-> [fast_lookback_days |-> 1, slow_lookback_days |-> 2, margin |-> 0,
             accel_threshold_pct |-> 1, min_momentum_pct |-> 1, breakout_window |-> 2,
             regime_instrument |-> 0, regime_sma_period |-> 0],
         momentum_top_gainers |-> [momentum_lookback_days |-> 1, top_n_pct |-> 67,
             rebalance_interval_days |-> 2, min_momentum_pct |-> 1, regime_instrument |-> 1,
             regime_sma_period |-> 2, direction_score_n_day_ma |-> 2,
             direction_score_threshold |-> 40],
         quality_dip_buy |-> [consecutive_positive_years |-> 1, trading_days_per_year |-> 2,
             min_yearly_return_pct |-> 1, dip_threshold_pct |-> 5, peak_lookback_days |-> 2,
             rescreen_interval_days |-> 1, max_per_sector |-> 1, rsi_threshold |-> 60,
             rsi_period |-> 1, regime_instrument |-> 0, regime_sma_period |-> 0],
         quality_dip_tiered |-> [consecutive_positive_years |-> 1, trading_days_per_year |-> 2,
             min_yearly_return_pct |-> -40, base_dip_threshold_pct |-> 5, n_tiers |-> 2,
             tier_multiplier |-> 2, peak_lookback_days |-> 2, rescreen_interval_days |-> 2,
             regime_instrument |-> 0, regime_sma_period |-> 0,
             force_exit_on_regime_flip |-> TRUE, internal_regime_sma_period |-> 2,
             internal_regime_threshold |-> 30, internal_regime_exit_threshold |-> 0],
         filing_lag_days |-> 1,
         filings |-> <<<<Reported(1, TRUE, 12, 20), Reported(3, TRUE, 9, 5), Reported(6, FALSE, 8, 30)>>,
                       <<Reported(0, TRUE, 11, 8), Reported(2, TRUE, 10, 10), Reported(3, FALSE, 10, 10),
                         Reported(5, TRUE, 7, 4)>>, <<Reported(-9, TRUE, 13, 1), Reported(2, TRUE, 6, 15)>>>>,
         low_pe |-> [quarter_days |-> 3, month_days |-> 2, max_stocks |-> 2, min_stocks |-> 1],
         trending_value |-> [rebalance_days |-> 2, top_n_stocks |-> 2, min_eligible |-> 2],
         earnings |-> <<<<[epoch |-> 2, surprise_pct |-> 10], [epoch |-> 3, surprise_pct |-> 10]>>,
                        <<[epoch |-> 1, surprise_pct |-> 5], [epoch |-> 3, surprise_pct |-> 10]>>,
                        <<[epoch |-> 3, surprise_pct |-> 20]>>>>,
         momentum_dip_quality |-> [consecutive_positive_years |-> 1, trading_days_per_year |-> 1,
             min_yearly_return_pct |-> -40, momentum_lookback_days |-> 1,
             momentum_percentile |-> 67, rerank_interval_days |-> 2, dip_threshold_pct |-> 5,
             peak_lookback_days |-> 2, rescreen_interval_days |-> 1, regime_instrument |-> 0,
             regime_sma_period |-> 0, direction_score_n_day_ma |-> 0,
             direction_score_threshold |-> 0, uses_fundamentals |-> TRUE,
             fundamental_missing_mode |-> "skip"],
         enhanced_breakout |-> [consecutive_positive_years |-> 1, trading_days_per_year |-> 1,
             min_yearly_return_pct |-> 0, momentum_lookback_days |-> 2,
             momentum_percentile |-> 67, rerank_interval_days |-> 1, breakout_window |-> 1,
             volume_multiplier |-> 1, volume_avg_period |-> 1, rescreen_interval_days |-> 2,
             regime_instrument |-> 0, regime_sma_period |-> 2, direction_score_n_day_ma |-> 2,
             direction_score_threshold |-> 30, uses_fundamentals |-> TRUE,
             fundamental_missing_mode |-> "allow"],
         earnings_dip |-> [consecutive_positive_years |-> 1, trading_days_per_year |-> 1,
             min_yearly_return_pct |-> -40, surprise_threshold_pct |-> 10,
             dip_threshold_pct |-> 5, post_earnings_window |-> 4, settle_rows |-> 1,
             min_rows |-> 3, volume_rows |-> 1, volume_ratio_max |-> 1,
             rescreen_interval_days |-> 2, regime_instrument |-> 0, regime_sma_period |-> 0,
             uses_fundamentals |-> FALSE, fundamental_missing_mode |-> "skip"],
         breakout_pullback |-> [breakout_window |-> 2, breakout_lookback |-> 3,
             pullback_pct |-> 5, trend_ma_period |-> 3, regime_instrument |-> 1,
             regime_sma_period |-> 2, force_exit_on_regime_flip |-> TRUE,
             internal_regime_sma_period |-> 0, internal_regime_threshold |-> 0,
             internal_regime_exit_threshold |-> 0],
         eod_technical |-> [scan |-> [price_threshold |-> 14, period |-> 3, threshold |-> 30,
                                      n_day |-> 2, gain |-> 0],
             n_day_ma |-> 2, n_day_high |-> 2, direction_score |-> [n_day_ma |-> 2, score |-> 20],
             regime_instrument |-> 0, regime_sma_period |-> 0,
             force_exit_on_regime_flip |-> TRUE, internal_regime_sma_period |-> 2,
             internal_regime_threshold |-> 60],
         eod_breakout |-> [n_day_ma |-> 3, n_day_high |-> 2,
             direction_score |-> [n_day_ma |-> 2, score |-> 40], regime_instrument |-> 0,
             regime_sma_period |-> 0, force_exit_on_regime_flip |-> TRUE,
             min_entry_age_days |-> 2, internal_regime_sma_period |-> 2,
             internal_regime_threshold |-> 60, internal_regime_exit_threshold |-> 40,
             exit_regime_instrument |-> 1, exit_regime_sma_period |-> 2,
             entry_flip_skip_threshold |-> 2, entry_flip_lookback_days |-> 4]]

MCXC == [ibs_exit_threshold |-> 70, max_hold_days |-> 3, exit_sma_period |-> 3,
         stop_loss_pct |-> 15, trailing_stop_pct |-> 10, trailing_start_day |-> 1,
         red_candles_exit |-> 2, take_profit_pct |-> 20,
         swing_master |-> [target_pct |-> 15, stop_loss_pct |-> 15, max_hold_days |-> 3,
             trailing_buffer_pct |-> 2],
         momentum_dip |-> [profit_target_pct |-> 15, max_hold_days |-> 3],
         momentum_rebalance |-> [max_hold_days |-> 1],
         momentum_cascade |-> [trailing_stop_pct |-> 10, max_hold_days |-> 3],
         momentum_top_gainers |-> [trailing_stop_pct |-> 10, max_hold_days |-> 3],
         quality_dip_buy |-> [trailing_stop_pct |-> 0, max_hold_days |-> 0],
         quality_dip_tiered |-> [trailing_stop_pct |-> 10, max_hold_days |-> 4],
         momentum_dip_quality |-> [trailing_stop_pct |-> 10, max_hold_days |-> 3,
             require_peak_recovery |-> TRUE],
         enhanced_breakout |-> [trailing_stop_pct |-> 10, max_hold_days |-> 2],
         low_pe |-> [stop_loss_pct |-> 15],
         trending_value |-> [min_hold_days |-> 1, trailing_stop_pct |-> 10],
         earnings_dip |-> [trailing_stop_pct |-> 0, max_hold_days |-> 3],
         breakout_pullback |-> [trailing_stop_pct |-> 10, min_hold_time_days |-> 0,
             tsl_tighten_after_pct |-> 999, tsl_tight_pct |-> 0],
         eod_technical |-> [trailing_stop_pct |-> 10, min_hold_time_days |-> 0,
             tsl_tighten_after_pct |-> 10, tsl_tight_pct |-> 5],
         eod_breakout |-> [trailing_stop_pct |-> 20, min_hold_time_days |-> 0,
             tsl_tighten_after_pct |-> 10, tsl_tight_pct |-> 5]]

\* A rise, with three entries, and a fall that stops out the first of them only.
MCRise == Shape(1, 18, 22, 18, 22, 4, 40, FALSE)
MCFurtherRise == Shape(1, 22, 24, 22, 24, 4, 60, FALSE)
MCFall == Shape(1, 23, 23, 20, 20, 4, 10, FALSE)
MCRiseAndFall == {MCRise, MCFurtherRise, MCFall}
MCFalls == {MCFall}
MCECRising == [MCEC EXCEPT !.eod_technical.scan.gain = -10,
                           !.eod_technical.n_day_ma = 3,
                           !.eod_technical.direction_score.score = 0,
                           !.eod_technical.internal_regime_sma_period = 0]
MCXCRising == [MCXC EXCEPT !.eod_technical = [trailing_stop_pct |-> 50,
                  min_hold_time_days |-> 0, tsl_tighten_after_pct |-> 21, tsl_tight_pct |-> 5]]
MCRisingCompanions ==
    <<<<Daily(1, 28, 26, 9, 50), Daily(2, 26, 27, 9, 50), Daily(3, 30, 29, 9, 50),
        Daily(4, 30, 41, 9, 50), Daily(5, 41, 43, 9, 50), Daily(6, 43, 47, 9, 50),
        Daily(7, 47, 53, 9, 50), Daily(8, 53, 59, 9, 50)>>>>

MCStarts == {2, 3, 5}

MCSimConfigs ==
    LET SC(type, default, days, nulls_last) ==
            [order_sorting_type |-> type, default_sorting_type |-> default,
             order_ranking_window_days |-> days, ranking_nulls_last |-> nulls_last]
    IN  {SC("top_gainer", "top_gainer", 1, TRUE), SC("top_average_txn", "top_gainer", 2, FALSE),
         SC("top_performer", "top_gainer", 4, TRUE), SC("top_dipper", "none", 2, TRUE)}
=============================================================================
